---- MODULE Spec2Model ----
(***************************************************************************)
(* CAPTCHA verification engine of scratcha-backend: session issue with     *)
(* quota debit, verification (timeout, behaviour scoring, rule/ML fusion), *)
(* and the periodic timeout sweeps, over one transactional store with row  *)
(* locks.                                                                  *)
(*                                                                         *)
(* Probabilities and rates are in percent (0.5 is 50), times in ms.       *)
(***************************************************************************)
EXTENDS Integers, Sequences, FiniteSets

\* ------------------------------------------------------------------ bounds
NumIssuers == 2
NumVerifiers == 2
MaxIssue == 2
MaxSessions == 1
MaxBalance == 2
MaxTick == 5
MaxChunks == 3
MaxRuns == 2
WindowRows == 3
MaxSplit == 11
MaxPending == 2
MaxResend == 2

\* ------------------------------------------------------- program constants
CAPTCHA_TIMEOUT_MINUTES == 3
SchedulerTimeoutMinutes == 3
TimingFloorMs == 500
DefaultThreshold == 50
TouchConfidence == 50
CHUNK_SIZE == 50
MsPerMinute == 60000

TimeoutMs == CAPTCHA_TIMEOUT_MINUTES * MsPerMinute
SchedulerTimeoutMs == SchedulerTimeoutMinutes * MsPerMinute

\* The instants the wall clock passes through (ms since the first request).
Times == <<0, 2000, 179999, 180000, 180001>>
Instant(i) ==
    IF i <= Len(Times) THEN Times[i]
    ELSE Times[Len(Times)] + (i - Len(Times)) * MsPerMinute

Issuers == 1..NumIssuers
Verifiers == 1..NumVerifiers

NoVal == -1          \* Python None in a numeric column
FreeLock == 0        \* row lock not held
CeleryHolder == -2   \* row lock held by the celery sweep transaction

Answers == {"cat", "dog"}

\* The session ids chunks are sent under, and the chunk indices of a session.
ChunkTokens == 1..MaxSessions
ChunkIndices == {0, 1, 2, 10}
NotRead == [read |-> FALSE, events |-> <<>>]
\* A rectangle that is absent from the metadata.
NoRect == <<>>
\* Raw positions are in half pixels, event timestamps and deltas in
\* thousandths of the unit in which the client reports them.
PxUnit == 2
TimeFrac == 1000
\* A value that float() and int() reject, such as a string.
BadNum == -2
\* The metadata and event lists the extraction is run on.
Metas ==
    <<[canvas |-> <<0, 0, 100, 100>>, wrapper |-> <<0, 0, 200, 200>>],
      [canvas |-> NoRect, wrapper |-> <<0, 0, 200, 200>>]>>
Click(t, x, y) == [type |-> "click", t |-> t, x |-> x, y |-> y]
EventLists ==
    << <<>>,
       <<Click(5000, 50, 50)>>,
       <<Click(30000, 150, 50), Click(10000, 20, 20), Click(10000, 40, 90)>>,
       <<[type |-> "moves", base_t |-> 0, dts |-> <<16000, 0, 16000>>,
          xrs |-> <<10, 30, 60>>, yrs |-> <<10, 10, 250>>],
         Click(40000, 60, 60)>> >>
\* An input is a pair of positions in Metas and EventLists.
FeatInputs == (DOMAIN Metas) \X (DOMAIN EventLists)

\* An element of the event list that is no JSON object (a string, a number).
NotAnObject == [type |-> "<not an object>"]
\* A moves event: payload.base_t, payload.dts, payload.xrs, payload.yrs; an
\* absent or empty payload has no lists.
Moves(base_t, dts, xrs, yrs) ==
    [type |-> "moves", base_t |-> base_t, dts |-> dts, xrs |-> xrs, yrs |-> yrs]
\* Further metadata: a canvas of half a pixel, a canvas without width, a
\* canvas away from the origin and no wrapper.
MoreMetas ==
    <<[canvas |-> <<0, 0, 1, 1>>, wrapper |-> <<0, 0, 200, 200>>],
      [canvas |-> <<0, 0, 0, 100>>, wrapper |-> NoRect],
      [canvas |-> <<10, 10, 100, 50>>, wrapper |-> NoRect]>>
\* Further event lists: events that are skipped; a non-numeric coordinate;
\* a non-object element; a non-numeric delta; timestamps in seconds, in
\* microseconds and in fractional milliseconds; a trace longer than the
\* window; zero and negative deltas; points on and around the edges.
MoreEventLists ==
    << <<[type |-> "wheel", t |-> 1000, x |-> 5, y |-> 5],
         Click(2000, NoVal, 10), Moves(NoVal, <<>>, <<>>, <<>>),
         Click(7000, 30, 30)>>,
       <<Moves(0, <<5000, 5000>>, <<10, BadNum>>, <<10, 10>>),
         Click(9000, 20, 20)>>,
       <<NotAnObject, Click(9000, 20, 20)>>,
       <<Moves(0, <<5000, BadNum>>, <<10, 20>>, <<10, 10>>)>>,
       <<Click(0, 10, 10), Click(4, 20, 20), Click(8, 30, 30)>>,
       <<Click(0, 10, 10), Click(2000000, 20, 20), Click(4000000, 30, 30)>>,
       <<Click(10500, 10, 10), Click(26500, 20, 20)>>,
       <<Moves(100000, <<8000, 8000, 8000, 8000, 8000>>,
               <<10, 20, 30, 40, 50>>, <<10, 20, 30, 40, 50>>),
         [type |-> "pointerup", t |-> 150000, x |-> 60, y |-> 60]>>,
       <<Moves(20000, <<0, -5000, 16000>>, <<10, 30, 60>>, <<10, 10, 20>>),
         [type |-> "pointerdown", t |-> 20000, x |-> 5, y |-> 5]>>,
       <<Click(1000, -4, 50), Click(2000, 100, 100), Click(3000, 101, 50),
         Click(4000, 0, 0), Click(5000, 1, 1), Click(6000, 2, 0)>> >>
AllMetas == Metas \o MoreMetas
AllEventLists == EventLists \o MoreEventLists
ExtractInputs == (DOMAIN AllMetas) \X (DOMAIN AllEventLists)
NoIn == <<0, 0>>

\* _MODEL: None, or the network that thread p built and loaded.
NoModel == 0
ModelLoadedBy(p) == p
\* val_threshold in the thresholds.json that training wrote, in hundredths.
FileThreshold == 37

\* The curated problem pool: (answer, expiresAt).
Problems == {[id |-> 1, answer |-> "cat", expiresAt |-> 180000]}

VARIABLES
    settings,     \* ENABLE_KS3, KS3_BASE_URL (fixed at startup)
    timeIdx,      \* wall clock: index of the current instant
    userToken,    \* User.token, the quota balance of the one quota owner
    userLock,     \* holder of the User row lock
    sessions,     \* captcha_session rows; the row id is the client token
    sessLock,     \* holder of each captcha_session row lock
    logs,         \* captcha_log rows, per session, in insertion order
    stats,        \* usage counters of the API key
    archive,      \* uploadBehaviorDataTask.delay(clientToken) calls so far
    ipc, iread, iresp,          \* generateCaptchaProblem calls in flight
    vpc, vreq, vctx, staged, vresp, \* verifyCaptchaAnswer calls in flight
    spc, ssnap,   \* scheduler.py sweep: position, rows its query returned
    cpc, csnap,   \* celery sweep: position, rows its query locked
    hist,         \* history: initial balance, calls made, calls per outcome
    chunkState,   \* POST /events/chunk: where each chunk's store write stands
    chunkResp,    \* POST /events/chunk: the status code answered per chunk
    arrival,      \* object store: per session, chunk indices in write order
    late,         \* chunks written when their session already had a log
    merged,       \* uploadBehaviorDataTask: the events it downloaded
    taskState,    \* verifyCaptchaTask: celery state of each worker's task
    taskPoll,     \* getVerifyResult: the status code of the last poll
    taskFinal,    \* getVerifyResult: a 200 or 500 was returned before
    featSeen,     \* build_window_7ch: the results returned so far per input
    featRuns,     \* build_window_7ch: the number of runs so far per input
    splitN,       \* test client: len(all_events) of its session, once loaded
    splitSent,    \* test client: chunks sent so far (the loop index)
    splitPending, \* chunks answered whose store write has not run yet
    splitBucket,  \* object store of the test session, in write order
    splitResent,  \* chunks of the test session delivered once more so far
    exIn,         \* build_window_7ch: the input of the last call
    exOut,        \* build_window_7ch: how the last call ended, its locals
    _MODEL,       \* behavior_service._MODEL: the loaded model, or none
    _THRESHOLD,   \* behavior_service._THRESHOLD, in hundredths, or None
    _MODEL_LOCK,  \* the thread that holds behavior_service._MODEL_LOCK
    thrFile,      \* artifacts/thresholds.json: val_threshold, or unreadable
    mpc, mret,    \* get_model: each thread's position and last return value
    tpc, tret     \* _load_threshold_once: position and last return value

vars == <<settings, timeIdx, userToken, userLock, sessions, sessLock, logs,
          stats, archive, ipc, iread, iresp, vpc, vreq, vctx, staged, vresp,
          spc, ssnap, cpc, csnap, hist, chunkState, chunkResp, arrival,
          late, merged, taskState, taskPoll, taskFinal, featSeen, featRuns,
          splitN, splitSent, splitPending, splitBucket, splitResent,
          exIn, exOut,
          _MODEL, _THRESHOLD, _MODEL_LOCK, thrFile, mpc, mret, tpc, tret>>

issueVars == <<ipc, iread, iresp>>
verifyVars == <<vpc, vreq, vctx, staged, vresp>>
sweepVars == <<spc, ssnap, cpc, csnap>>
chunkVars == <<chunkState, chunkResp, arrival, late, merged>>
taskVars == <<taskState, taskPoll, taskFinal>>
featVars == <<featSeen, featRuns>>
splitVars == <<splitN, splitSent, splitPending, splitBucket, splitResent>>
modelVars == <<_MODEL, _MODEL_LOCK, mpc, mret>>
thresholdVars == <<_THRESHOLD, thrFile, tpc, tret>>
extractVars == <<exIn, exOut>>
NoOut == [raised |-> FALSE, window |-> <<>>, pts |-> <<>>, ts |-> <<>>]

now == Instant(timeIdx)

Min(a, b) == IF a <= b THEN a ELSE b

\* ------------------------------------------------------------- the store
SessionIds == 1..Len(sessions)

\* Variants of the log check: one that never finds a log, one that only
\* counts a SUCCESS log as a verification.
NeverLogged(sid) == FALSE
SuccessLogExists(sid) ==
    \E i \in DOMAIN logs[sid] : logs[sid][i].result = "success"

\* CaptchaRepository.logExistForSession / does_log_exist_for_session
does_log_exist_for_session(sid) == Len(logs[sid]) > 0

\* CaptchaRepository.getRandomActiveProblem: the unexpired problems
getRandomActiveProblem(t) == {pr \in Problems : pr.expiresAt > t}

NoReq == [token |-> 0, answer |-> "cat", scratchOk |-> TRUE]
NoData == [meta |-> "none", hasEvents |-> FALSE, extractOk |-> FALSE,
           oob |-> 0, speedZero |-> FALSE, malformed |-> FALSE,
           store |-> "none"]
NoCtx == [latency |-> NoVal, rec |-> NoData, modelLoaded |-> FALSE,
          prob |-> NoVal, inferred |-> FALSE, clsVerdict |-> "none",
          verdict |-> "none"]
NoLog == [result |-> "none", isCorrect |-> FALSE, conf |-> NoVal,
          isBot |-> "null", latency |-> NoVal, by |-> "none"]
NoResp == "none"

SettingsSet ==
    {[ENABLE_KS3 |-> TRUE, KS3_BASE_URL |-> TRUE],
     [ENABLE_KS3 |-> FALSE, KS3_BASE_URL |-> TRUE],
     [ENABLE_KS3 |-> TRUE, KS3_BASE_URL |-> FALSE]}

Init ==
    /\ settings \in SettingsSet
    /\ timeIdx = 1
    /\ userToken \in 0..MaxBalance
    /\ userLock = FreeLock
    /\ sessions = <<>>
    /\ sessLock = <<>>
    /\ logs = <<>>
    /\ stats = [total |-> 0, success |-> 0, fail |-> 0, timeout |-> 0]
    /\ archive = {}
    /\ ipc = [q \in Issuers |-> "idle"]
    /\ iread = [q \in Issuers |-> 0]
    /\ iresp = [q \in Issuers |-> "none"]
    /\ vpc = [p \in Verifiers |-> "idle"]
    /\ vreq = [p \in Verifiers |-> NoReq]
    /\ vctx = [p \in Verifiers |-> NoCtx]
    /\ staged = [p \in Verifiers |-> NoLog]
    /\ vresp = [p \in Verifiers |-> NoResp]
    /\ spc = "idle"
    /\ ssnap = {}
    /\ cpc = "idle"
    /\ csnap = {}
    /\ hist = [initToken |-> userToken, calls |-> 0, q402 |-> 0, qerr |-> 0]
    /\ chunkState = [t \in ChunkTokens |-> [i \in ChunkIndices |-> "none"]]
    /\ chunkResp = [t \in ChunkTokens |-> [i \in ChunkIndices |-> 0]]
    /\ arrival = [t \in ChunkTokens |-> <<>>]
    /\ late = [t \in ChunkTokens |-> {}]
    /\ merged = [t \in ChunkTokens |-> NotRead]
    /\ taskState = [p \in Verifiers |-> "none"]
    /\ taskPoll = [p \in Verifiers |-> 0]
    /\ taskFinal = [p \in Verifiers |-> FALSE]
    /\ featSeen = [x \in FeatInputs |-> {}]
    /\ featRuns = [x \in FeatInputs |-> 0]
    /\ splitN = NoVal
    /\ splitSent = 0
    /\ splitPending = {}
    /\ splitBucket = <<>>
    /\ splitResent = 0
    /\ exIn = NoIn
    /\ exOut = NoOut
    /\ _MODEL = NoModel
    /\ _THRESHOLD = NoVal
    /\ _MODEL_LOCK = FreeLock
    /\ thrFile = NoVal
    /\ mpc = [p \in Verifiers |-> "idle"]
    /\ mret = [p \in Verifiers |-> NoModel]
    /\ tpc = [p \in Verifiers |-> "idle"]
    /\ tret = [p \in Verifiers |-> NoVal]

\* ------------------------------------------------------------- the clock
Tick ==
    /\ timeIdx < MaxTick
    /\ timeIdx' = timeIdx + 1
    /\ UNCHANGED <<settings, featVars, splitVars, extractVars, modelVars, thresholdVars, chunkVars, taskVars, userToken, userLock, sessions, sessLock, logs,
                   stats, archive, issueVars, verifyVars, sweepVars, hist>>

\* ------------------------------------------- generateCaptchaProblem (issue)
\* Variant: the quota owner is read without FOR UPDATE.
NoUserRowLock == TRUE

\* db.query(User)...with_for_update(): wait for the User row lock.
UserRowLockFree == userLock = FreeLock

\* Lines 64-65: SELECT ... FOR UPDATE of the quota owner; the balance is read
\* under the lock.
IssueLock(q) ==
    /\ ipc[q] = "idle"
    /\ hist.calls < MaxIssue
    /\ UserRowLockFree
    /\ userLock' = q
    /\ iread' = [iread EXCEPT ![q] = userToken]
    /\ ipc' = [ipc EXCEPT ![q] = "run"]
    /\ hist' = [hist EXCEPT !.calls = @ + 1]
    /\ UNCHANGED <<settings, featVars, splitVars, extractVars, modelVars, thresholdVars, chunkVars, taskVars, timeIdx, userToken, sessions, sessLock, logs,
                   stats, archive, iresp, verifyVars, sweepVars>>

\* Variant: the debit is flushed and committed before the failure is raised.
IssueRollbackKeepsDebit(q, why) ==
    /\ userLock' = FreeLock
    /\ ipc' = [ipc EXCEPT ![q] = "idle"]
    /\ iresp' = [iresp EXCEPT ![q] = why]
    /\ hist' = IF why = "QuotaExhausted"
               THEN [hist EXCEPT !.q402 = @ + 1]
               ELSE [hist EXCEPT !.qerr = @ + 1]
    /\ userToken' = IF iread[q] > 0 THEN iread[q] - 1 ELSE userToken
    /\ UNCHANGED <<sessions, sessLock, logs, stats>>

\* db.rollback() of an issue: nothing staged is written, the lock is released.
IssueRollback(q, why) ==
    /\ userLock' = FreeLock
    /\ ipc' = [ipc EXCEPT ![q] = "idle"]
    /\ iresp' = [iresp EXCEPT ![q] = why]
    /\ hist' = IF why = "QuotaExhausted"
               THEN [hist EXCEPT !.q402 = @ + 1]
               ELSE [hist EXCEPT !.qerr = @ + 1]
    /\ UNCHANGED <<userToken, sessions, sessLock, logs, stats>>

\* db.commit() of an issue: debit, session row and request counter together.
IssueCommit(q, pr) ==
    /\ userToken' = iread[q] - 1
    /\ sessions' = Append(sessions, [createdAt |-> now, answer |-> pr.answer])
    /\ sessLock' = Append(sessLock, FreeLock)
    /\ logs' = Append(logs, <<>>)
    /\ stats' = [stats EXCEPT !.total = @ + 1]
    /\ userLock' = FreeLock
    /\ ipc' = [ipc EXCEPT ![q] = "idle"]
    /\ iresp' = [iresp EXCEPT ![q] = "ok"]
    /\ hist' = hist

\* Lines 67-149: the rest of the transaction.
IssueRun(q) ==
    /\ ipc[q] = "run"
    /\ IF iread[q] <= 0
       THEN IssueRollback(q, "QuotaExhausted")
       ELSE IF getRandomActiveProblem(now) = {}
       THEN IssueRollback(q, "NoProblemAvailable")
       ELSE IF ~settings.KS3_BASE_URL
       THEN IssueRollback(q, "InternalError")
       ELSE \E pr \in getRandomActiveProblem(now) : IssueCommit(q, pr)
    /\ UNCHANGED <<settings, featVars, splitVars, extractVars, modelVars, thresholdVars, chunkVars, taskVars, timeIdx, archive, iread, verifyVars, sweepVars>>

\* ------------------------------------------------------ behaviour scoring
\* What download_behavior_chunks hands to verify, with the statistics that
\* build_window_7ch / seq_stats derive from it: the chunks' meta (device),
\* whether any event was merged, whether a tensor can be built (canvas
\* rectangle present, at least one flattened point), the canvas OOB rate and
\* whether the mean speed is 0 over more than one sample; and whether the
\* merged list holds an event on which _flatten_events raises.
Reconstructions ==
    {[NoData EXCEPT !.store = "ok"]}
    \cup {[meta |-> d, hasEvents |-> FALSE, extractOk |-> FALSE, oob |-> 0,
           speedZero |-> FALSE, malformed |-> FALSE, store |-> "ok"] :
              d \in {"mouse", "touch"}}
    \cup {[meta |-> d, hasEvents |-> TRUE, extractOk |-> FALSE, oob |-> 0,
           speedZero |-> FALSE, malformed |-> m, store |-> "ok"] :
              d \in {"mouse", "touch"}, m \in BOOLEAN}
    \cup {[meta |-> d, hasEvents |-> TRUE, extractOk |-> TRUE, oob |-> o,
           speedZero |-> FALSE, malformed |-> FALSE, store |-> "ok"] :
              d \in {"mouse", "touch"}, o \in {30, 100}}
    \cup {[meta |-> d, hasEvents |-> TRUE, extractOk |-> TRUE, oob |-> 30,
           speedZero |-> TRUE, malformed |-> FALSE, store |-> "ok"] :
              d \in {"mouse", "touch"}}

\* How a download can end without data: the store is disabled (line 136),
\* the client is not configured (lines 140-142), or listing or reading a
\* chunk raised (lines 175-177).
StoreFailures == {"unconfigured", "error"}

\* download_behavior_chunks: nothing when the object store is disabled, not
\* configured or failing; otherwise what the stored chunks merge to.
download_behavior_chunks(cfg) ==
    IF cfg.ENABLE_KS3
    THEN Reconstructions \cup {[NoData EXCEPT !.store = f] : f \in StoreFailures}
    ELSE {[NoData EXCEPT !.store = "disabled"]}

\* The classifier's calibrated probabilities (percent) the model can output.
Probs == {20, 50}

get_threshold == DefaultThreshold

\* run_behavior_verification: no result without a model or without a tensor;
\* otherwise the probability and the verdict, bot iff prob >= threshold.
run_behavior_verification(rec, modelLoaded, prob) ==
    IF ~modelLoaded THEN [ok |-> FALSE, bot_prob |-> NoVal, verdict |-> "none"]
    ELSE IF ~rec.extractOk
    THEN [ok |-> FALSE, bot_prob |-> NoVal, verdict |-> "none"]
    ELSE [ok |-> TRUE, bot_prob |-> prob,
          verdict |-> IF prob >= get_threshold THEN "bot" ELSE "human"]

\* run_behavior_verification ends in the exception of _flatten_events when
\* the model is loaded (line 301) and an event is one it raises on.
ExtractionRaises(rec, modelLoaded) == modelLoaded /\ rec.malformed

\* --------------------------------------------------------- RuleCheckService
\* check_time_constraint fires below the timing floor.
check_time_constraint(latency) == latency < TimingFloorMs
\* check_no_scratching fires when the canvas OOB rate is 100%.
check_no_scratching(rec) == rec.oob = 100
\* check_no_mouse_movement fires on mean speed 0 with more than one sample.
check_no_mouse_movement(rec) == rec.speedZero
\* Variant of the device rule that always abstains.
DeviceRuleAbstains(rec) == FALSE
\* check_device_type fires on touch-device metadata.
check_device_type(rec) == rec.meta = "touch"
\* check_captcha_scratch_rules(scratchedPercentage, scratchedTime): passes or
\* raises on the request's scratch metrics.
check_captcha_scratch_rules(req) == req.scratchOk

\* ------------------------------------------------ verifyCaptchaAnswer
\* getCaptchaSessionByClientToken(clientToken, for_update=True): the row, if
\* any, once its row lock can be taken.
\* Variant of the lookup that falls back to the oldest session when the token
\* matches none.
OldestSessionIfNoMatch(tok) ==
    IF tok \in SessionIds THEN tok
    ELSE IF Len(sessions) > 0 THEN 1 ELSE 0

getCaptchaSessionByClientToken(tok) ==
    IF tok \in SessionIds THEN tok ELSE 0

SessionRowLockFree(sid) == sessLock[sid] = FreeLock

VerifyLock(p, tok, ans, sOk) ==
    /\ vpc[p] = "idle"
    /\ LET sid == getCaptchaSessionByClientToken(tok) IN
       IF sid = 0
       THEN /\ vresp' = [vresp EXCEPT ![p] = "InvalidToken"]
            /\ UNCHANGED <<sessLock, vpc, vreq>>
       ELSE /\ SessionRowLockFree(sid)
            /\ sessLock' = [sessLock EXCEPT ![sid] = p]
            /\ vpc' = [vpc EXCEPT ![p] = "locked"]
            /\ vreq' = [vreq EXCEPT ![p] =
                           [token |-> tok, answer |-> ans, scratchOk |-> sOk]]
            /\ vresp' = [vresp EXCEPT ![p] = NoResp]
    /\ UNCHANGED <<settings, featVars, splitVars, extractVars, modelVars, thresholdVars, chunkVars, taskVars, timeIdx, userToken, userLock, sessions, logs,
                   stats, archive, issueVars, vctx, staged, sweepVars, hist>>

\* db.rollback() and the HTTPException: nothing is written, the lock goes.
VerifyRollback(p, why) ==
    /\ sessLock' = [sessLock EXCEPT ![vreq[p].token] = FreeLock]
    /\ vpc' = [vpc EXCEPT ![p] = "idle"]
    /\ vreq' = [vreq EXCEPT ![p] = NoReq]
    /\ vctx' = [vctx EXCEPT ![p] = NoCtx]
    /\ staged' = [staged EXCEPT ![p] = NoLog]
    /\ vresp' = [vresp EXCEPT ![p] = why]
    /\ UNCHANGED archive

\* Lines 205-213: the TIMEOUT log of a verify past the response window.
TimeoutLog(latency, who) ==
    [result |-> "timeout", isCorrect |-> FALSE, conf |-> NoVal,
     isBot |-> "null", latency |-> latency, by |-> who]

\* Variant: no latency counts as timed out.
NeverTimedOut(latency) == FALSE

\* Line 205: latency > timedelta(minutes=CAPTCHA_TIMEOUT_MINUTES).
IsTimedOut(latency) == latency > TimeoutMs

\* Variant: the verdict is ignored.
FuseAnswerOnly(is_correct, verdict) ==
    IF is_correct THEN "success" ELSE "fail"

\* Lines 263-274: the result from answer correctness and verdict.
Fuse(is_correct, verdict) ==
    IF is_correct /\ verdict = "human" THEN "success" ELSE "fail"

\* Variant: an exception while chunks are listed or read is not caught in
\* download_behavior_chunks and aborts the verify.
ScoreAbortsOnStoreError(p, sid, latency, rec, modelLoaded, prob) ==
    IF rec.store = "error" THEN VerifyRollback(p, "InternalError") ELSE
    IF rec.meta # "none" /\ rec.hasEvents /\ ExtractionRaises(rec, modelLoaded)
    THEN VerifyRollback(p, "ExtractionError") ELSE
    LET consulted == rec.meta # "none" /\ rec.hasEvents
        br == IF consulted
              THEN run_behavior_verification(rec, modelLoaded, prob)
              ELSE [ok |-> FALSE, bot_prob |-> NoVal, verdict |-> "none"]
        touch == check_device_type(rec)
        confidence == IF touch THEN TouchConfidence
                      ELSE IF br.ok THEN br.bot_prob ELSE NoVal
        verdict == IF touch THEN "human"
                   ELSE IF br.ok THEN br.verdict ELSE "none"
        is_correct == vreq[p].answer = sessions[sid].answer
        result == Fuse(is_correct, verdict)
    IN  /\ staged' = [staged EXCEPT ![p] =
                        [result |-> result,
                         isCorrect |-> is_correct, conf |-> confidence,
                         isBot |-> IF verdict = "bot" THEN "true" ELSE "false",
                         latency |-> latency, by |-> "verify"]]
        /\ vctx' = [vctx EXCEPT ![p] =
                      [latency |-> latency, rec |-> rec,
                       modelLoaded |-> modelLoaded,
                       prob |-> IF br.ok THEN prob ELSE NoVal,
                       inferred |-> br.ok, clsVerdict |-> br.verdict,
                       verdict |-> verdict]]
        /\ archive' = IF result = "success" /\ settings.ENABLE_KS3
                      THEN archive \cup {sid} ELSE archive
        /\ vpc' = [vpc EXCEPT ![p] = "commit"]
        /\ UNCHANGED <<sessLock, vreq, vresp>>

\* Lines 220-285: reconstruct, score, device override, fuse, stage the log.
\* An exception out of run_behavior_verification reaches the except branch
\* of lines 302-305: rollback and a 500 whose detail is the exception's text.
Score(p, sid, latency, rec, modelLoaded, prob) ==
    IF rec.meta # "none" /\ rec.hasEvents /\ ExtractionRaises(rec, modelLoaded)
    THEN VerifyRollback(p, "ExtractionError") ELSE
    LET consulted == rec.meta # "none" /\ rec.hasEvents
        br == IF consulted
              THEN run_behavior_verification(rec, modelLoaded, prob)
              ELSE [ok |-> FALSE, bot_prob |-> NoVal, verdict |-> "none"]
        touch == check_device_type(rec)
        confidence == IF touch THEN TouchConfidence
                      ELSE IF br.ok THEN br.bot_prob ELSE NoVal
        verdict == IF touch THEN "human"
                   ELSE IF br.ok THEN br.verdict ELSE "none"
        is_correct == vreq[p].answer = sessions[sid].answer
        result == Fuse(is_correct, verdict)
    IN  /\ staged' = [staged EXCEPT ![p] =
                        [result |-> result,
                         isCorrect |-> is_correct, conf |-> confidence,
                         isBot |-> IF verdict = "bot" THEN "true" ELSE "false",
                         latency |-> latency, by |-> "verify"]]
        /\ vctx' = [vctx EXCEPT ![p] =
                      [latency |-> latency, rec |-> rec,
                       modelLoaded |-> modelLoaded,
                       prob |-> IF br.ok THEN prob ELSE NoVal,
                       inferred |-> br.ok, clsVerdict |-> br.verdict,
                       verdict |-> verdict]]
        /\ archive' = IF result = "success" /\ settings.ENABLE_KS3
                      THEN archive \cup {sid} ELSE archive
        /\ vpc' = [vpc EXCEPT ![p] = "commit"]
        /\ UNCHANGED <<sessLock, vreq, vresp>>

\* Lines 185-285, under the session row lock.
VerifyScore(p, rec, modelLoaded, prob) ==
    /\ vpc[p] = "locked"
    /\ LET sid == vreq[p].token
           latency == now - sessions[sid].createdAt
       IN IF does_log_exist_for_session(sid)
          THEN VerifyRollback(p, "AlreadyVerified")
          ELSE IF ~check_captcha_scratch_rules(vreq[p])
          THEN VerifyRollback(p, "ScratchRule")
          ELSE IF IsTimedOut(latency)
          THEN /\ staged' = [staged EXCEPT ![p] =
                                TimeoutLog(latency, "verify")]
               /\ vctx' = [vctx EXCEPT ![p] =
                              [NoCtx EXCEPT !.latency = latency]]
               /\ vpc' = [vpc EXCEPT ![p] = "commit"]
               /\ UNCHANGED <<sessLock, vreq, vresp, archive>>
          ELSE Score(p, sid, latency, rec, modelLoaded, prob)
    /\ UNCHANGED <<settings, featVars, splitVars, extractVars, modelVars, thresholdVars, chunkVars, taskVars, timeIdx, userToken, userLock, sessions, logs,
                   stats, issueVars, sweepVars, hist>>

\* incrementVerificationResult: one more result of this kind for the key.
incrementVerificationResult(st, result) ==
    [st EXCEPT ![result] = @ + 1]

\* createCaptchaLog + incrementVerificationResult + db.commit(): the log and
\* the counter are written together, the lock is released, the response sent.
VerifyCommit(p) ==
    /\ vpc[p] = "commit"
    /\ logs' = [logs EXCEPT ![vreq[p].token] = Append(@, staged[p])]
    /\ stats' = incrementVerificationResult(stats, staged[p].result)
    /\ sessLock' = [sessLock EXCEPT ![vreq[p].token] = FreeLock]
    /\ vresp' = [vresp EXCEPT ![p] = staged[p].result]
    /\ vpc' = [vpc EXCEPT ![p] = "idle"]
    /\ vreq' = [vreq EXCEPT ![p] = NoReq]
    /\ vctx' = [vctx EXCEPT ![p] = NoCtx]
    /\ staged' = [staged EXCEPT ![p] = NoLog]
    /\ UNCHANGED <<settings, featVars, splitVars, extractVars, modelVars, thresholdVars, chunkVars, taskVars, timeIdx, userToken, userLock, sessions, archive,
                   issueVars, sweepVars, hist>>

\* Variant of the failure path in which the log outlives the failure: the
\* log is written outside the transaction that the except branch rolls back.
VerifyAbortKeepsLog(p) ==
    /\ vpc[p] = "commit"
    /\ logs' = [logs EXCEPT ![vreq[p].token] = Append(@, staged[p])]
    /\ VerifyRollback(p, "InternalError")
    /\ UNCHANGED <<settings, featVars, splitVars, extractVars, modelVars, thresholdVars, chunkVars, taskVars, timeIdx, userToken, userLock,
                   sessions, stats, issueVars, sweepVars, hist>>

\* Lines 278-305: createCaptchaLog, incrementVerificationResult or db.commit()
\* raises (the database fails); the except branch rolls the transaction back
\* and answers 500. The archival task enqueued at line 268 stays enqueued.
VerifyAbort(p) ==
    /\ vpc[p] = "commit"
    /\ VerifyRollback(p, "InternalError")
    /\ UNCHANGED <<settings, featVars, splitVars, extractVars, modelVars, thresholdVars, chunkVars, taskVars, timeIdx, userToken, userLock,
                   sessions, logs, stats, issueVars, sweepVars, hist>>

\* ------------------------------------------------------- timeout sweeps
\* One more TIMEOUT log for every session of the set.
TimeoutLogs(S, t) ==
    [sid \in DOMAIN logs |->
        IF sid \in S
        THEN Append(logs[sid],
                    TimeoutLog(t - sessions[sid].createdAt, "sweep"))
        ELSE logs[sid]]

\* The sessions older than the threshold that have no log.
ExpiredUnlogged(t, timeoutMs) ==
    {sid \in SessionIds :
        /\ sessions[sid].createdAt < t - timeoutMs
        /\ Len(logs[sid]) = 0}

\* scheduler.py cleanup_expired_captcha_sessions: the query (lines 26-34).
SchedulerQuery ==
    /\ spc = "idle"
    /\ ExpiredUnlogged(now, SchedulerTimeoutMs) # {}
    /\ ssnap' = ExpiredUnlogged(now, SchedulerTimeoutMs)
    /\ spc' = "write"
    /\ UNCHANGED <<settings, featVars, splitVars, extractVars, modelVars, thresholdVars, chunkVars, taskVars, timeIdx, userToken, userLock, sessions, sessLock,
                   logs, stats, archive, issueVars, verifyVars, cpc, csnap,
                   hist>>

\* Variant of the sweep's write in which the run always ends in its except
\* branch: rollback, nothing written.
SchedulerCommitRollsBack ==
    /\ spc = "write"
    /\ ssnap' = {}
    /\ spc' = "idle"
    /\ UNCHANGED <<settings, featVars, splitVars, extractVars, modelVars, thresholdVars, chunkVars, taskVars, timeIdx, userToken, userLock,
                   sessions, sessLock, logs, stats, archive, issueVars,
                   verifyVars, cpc, csnap, hist>>

\* scheduler.py lines 36-59: a TIMEOUT log and a counter per row, one commit.
SchedulerCommit ==
    /\ spc = "write"
    /\ logs' = TimeoutLogs(ssnap, now)
    /\ stats' = [stats EXCEPT !.timeout = @ + Cardinality(ssnap)]
    /\ ssnap' = {}
    /\ spc' = "idle"
    /\ UNCHANGED <<settings, featVars, splitVars, extractVars, modelVars, thresholdVars, chunkVars, taskVars, timeIdx, userToken, userLock, sessions, sessLock,
                   archive, issueVars, verifyVars, cpc, csnap, hist>>

\* captcha_tasks.py cleanupExpiredSessionsTask: the query with
\* with_for_update(skip_locked=True) (lines 126-136) locks the rows it returns
\* and skips the rows locked by others.
CeleryQuery ==
    /\ cpc = "idle"
    /\ LET rows == {sid \in ExpiredUnlogged(now, TimeoutMs) :
                        sessLock[sid] = FreeLock}
       IN /\ rows # {}
          /\ csnap' = rows
          /\ sessLock' = [sid \in DOMAIN sessLock |->
                            IF sid \in rows THEN CeleryHolder
                            ELSE sessLock[sid]]
    /\ cpc' = "write"
    /\ UNCHANGED <<settings, featVars, splitVars, extractVars, modelVars, thresholdVars, chunkVars, taskVars, timeIdx, userToken, userLock, sessions, logs,
                   stats, archive, issueVars, verifyVars, spc, ssnap, hist>>

\* captcha_tasks.py lines 138-168: the logs, the counters, one commit.
CeleryCommit ==
    /\ cpc = "write"
    /\ logs' = TimeoutLogs(csnap, now)
    /\ stats' = [stats EXCEPT !.timeout = @ + Cardinality(csnap)]
    /\ sessLock' = [sid \in DOMAIN sessLock |->
                      IF sid \in csnap THEN FreeLock ELSE sessLock[sid]]
    /\ csnap' = {}
    /\ cpc' = "idle"
    /\ UNCHANGED <<settings, featVars, splitVars, extractVars, modelVars, thresholdVars, chunkVars, taskVars, timeIdx, userToken, userLock, sessions, archive,
                   issueVars, verifyVars, spc, ssnap, hist>>

\* ------------------------------------------- behaviour chunks (ks3.py)
\* The character codes of '0' and '_' in an object key.
DigitZero == 48
Underscore == 95

TotalChunks == Cardinality(ChunkIndices)

\* The decimal digits of n, as f"{n}" writes them.
RECURSIVE Digits(_)
Digits(n) ==
    IF n < 10 THEN <<DigitZero + n>>
    ELSE Append(Digits(n \div 10), DigitZero + (n % 10))

\* Line 74: f"behavior-chunks/{session_id}/chunk_{index}_{total}.json.gz",
\* without the prefix and suffix that all keys of a session share.
ChunkKey(i, total) == Digits(i) \o <<Underscore>> \o Digits(total)

\* The events a chunk carries: two events tagged with the chunk they are from.
ChunkEvents(i) == <<[chunk |-> i, n |-> 0], [chunk |-> i, n |-> 1]>>

\* Lines 76-82: put_object, the stored object.
put_object(i) == [key |-> ChunkKey(i, TotalChunks), events |-> ChunkEvents(i)]

\* UTF-8 binary order of two keys, the order in which the store lists them.
RECURSIVE KeyBefore(_, _)
KeyBefore(a, b) ==
    IF b = <<>> THEN FALSE
    ELSE IF a = <<>> THEN TRUE
    ELSE IF Head(a) # Head(b) THEN Head(a) < Head(b)
    ELSE KeyBefore(Tail(a), Tail(b))

RECURSIVE InsertByKey(_, _)
InsertByKey(ks, k) ==
    IF ks = <<>> THEN <<k>>
    ELSE IF KeyBefore(k, Head(ks)) THEN <<k>> \o ks
    ELSE <<Head(ks)>> \o InsertByKey(Tail(ks), k)

\* Lines 149-155: list_objects_v2 over the session's prefix, the keys of the
\* stored objects in the store's listing order.
RECURSIVE list_objects_v2(_)
list_objects_v2(objs) ==
    IF objs = <<>> THEN <<>>
    ELSE InsertByKey(list_objects_v2(SubSeq(objs, 1, Len(objs) - 1)),
                     objs[Len(objs)].key)

RECURSIVE ParseDigits(_)
ParseDigits(d) ==
    IF d = <<>> THEN 0
    ELSE 10 * ParseDigits(SubSeq(d, 1, Len(d) - 1)) + (d[Len(d)] - DigitZero)

RECURSIVE InsertByIndex(_, _)
\* Variant of the index parse that reads one digit only.
FirstDigitOfKey(k) == k[1] - DigitZero

\* Line 156: int(k.split("chunk_")[1].split("_")[0]).
IndexOfKey(k) ==
    LET cut == CHOOSE n \in 1..Len(k) :
                   /\ k[n] = Underscore
                   /\ \A m \in 1..(n - 1) : k[m] # Underscore
    IN  ParseDigits(SubSeq(k, 1, cut - 1))

InsertByIndex(ks, k) ==
    IF ks = <<>> THEN <<k>>
    ELSE IF IndexOfKey(k) < IndexOfKey(Head(ks)) THEN <<k>> \o ks
    ELSE <<Head(ks)>> \o InsertByIndex(Tail(ks), k)

\* Variant of the ordering that keeps the listing order.
ListingOrder(listing) == listing

\* Lines 155-156: sorted(keys, key=index), a stable sort of the listing.
RECURSIVE chunk_keys(_)
chunk_keys(listing) ==
    IF listing = <<>> THEN <<>>
    ELSE InsertByIndex(chunk_keys(SubSeq(listing, 1, Len(listing) - 1)),
                       listing[Len(listing)])

\* Lines 159-160: get_object, the content stored under a key.
get_object(objs, k) ==
    (CHOOSE n \in DOMAIN objs : objs[n].key = k)

RECURSIVE ExtendAll(_, _)
ExtendAll(objs, ks) ==
    IF ks = <<>> THEN <<>>
    ELSE objs[get_object(objs, Head(ks))].events \o ExtendAll(objs, Tail(ks))

\* Lines 144-173: the merged event list of the objects stored for a session.
all_events(objs) == ExtendAll(objs, chunk_keys(list_objects_v2(objs)))

Delivered(t) == {i \in ChunkIndices : chunkState[t][i] # "none"}

\* events_router.py receive_event_chunk: the chunk is handed to a background
\* task and the request is answered at once. late records the chunks that
\* came in when the session already had a log.
ReceiveChunk(t, i) ==
    /\ chunkState[t][i] = "none"
    /\ Cardinality(Delivered(t)) < MaxChunks
    /\ chunkState' = [chunkState EXCEPT ![t][i] = "pending"]
    /\ chunkResp' = [chunkResp EXCEPT ![t][i] = 200]
    /\ late' = [late EXCEPT ![t] =
                   IF t \in SessionIds /\ Len(logs[t]) > 0
                   THEN @ \cup {i} ELSE @]
    /\ UNCHANGED <<settings, featVars, splitVars, extractVars, modelVars, thresholdVars, arrival, merged, taskVars, timeIdx,
                   userToken, userLock, sessions, sessLock, logs, stats,
                   archive, issueVars, verifyVars, sweepVars, hist>>

\* Variant of the background task whose failure reaches the client: the
\* HTTPException of event_service.py lines 34-38 becomes the response.
ProcessChunkAnswers(t, i, ok) ==
    /\ chunkState[t][i] = "pending"
    /\ chunkState' = [chunkState EXCEPT ![t][i] = IF ok THEN "stored" ELSE "failed"]
    /\ arrival' = [arrival EXCEPT ![t] = IF ok THEN Append(@, put_object(i)) ELSE @]
    /\ late' = late
    /\ chunkResp' = [chunkResp EXCEPT ![t][i] = IF ok THEN 200 ELSE 500]
    /\ UNCHANGED <<settings, featVars, splitVars, extractVars, modelVars, thresholdVars, merged, taskVars, timeIdx,
                   userToken, userLock, sessions, sessLock, logs, stats,
                   archive, issueVars, verifyVars, sweepVars, hist>>

\* event_service.py process_event_chunk and ks3.py upload_behavior_chunk, run
\* as the background task: the object is stored, or the write is skipped
\* (store disabled, lines 60-62) or fails (lines 85-86, logged only).
ProcessChunk(t, i, ok) ==
    /\ chunkState[t][i] = "pending"
    /\ IF ~settings.ENABLE_KS3
       THEN /\ chunkState' = [chunkState EXCEPT ![t][i] = "skipped"]
            /\ UNCHANGED <<arrival, late>>
       ELSE IF ok
       THEN /\ chunkState' = [chunkState EXCEPT ![t][i] = "stored"]
            /\ arrival' = [arrival EXCEPT ![t] = Append(@, put_object(i))]
            /\ late' = late
       ELSE /\ chunkState' = [chunkState EXCEPT ![t][i] = "failed"]
            /\ UNCHANGED <<arrival, late>>
    /\ UNCHANGED <<settings, featVars, splitVars, extractVars, modelVars, thresholdVars, chunkResp, merged, taskVars, timeIdx,
                   userToken, userLock, sessions, sessLock, logs, stats,
                   archive, issueVars, verifyVars, sweepVars, hist>>

\* captcha_tasks.py uploadBehaviorDataTask: the enqueued archival task runs
\* and downloads what is stored for the session at that moment.
ArchiveRun(t) ==
    /\ t \in archive
    /\ ~merged[t].read
    /\ merged' = [merged EXCEPT ![t] =
                     [read |-> TRUE, events |-> all_events(arrival[t])]]
    /\ UNCHANGED <<settings, featVars, splitVars, extractVars, modelVars, thresholdVars, chunkState, chunkResp, arrival, late, taskVars,
                   timeIdx, userToken, userLock, sessions, sessLock, logs,
                   stats, archive, issueVars, verifyVars, sweepVars, hist>>

\* ------------------------------------------- asynchronous verification
\* captcha_router.py verifyCaptchaAnswer (lines 58-103): the verification is
\* handed to the worker as verifyCaptchaTask and the task id is returned.
\* Task p is the verify that verifier p runs.
SubmitTask(p) ==
    /\ taskState[p] = "none"
    /\ taskState' = [taskState EXCEPT ![p] = "PENDING"]
    /\ UNCHANGED <<settings, featVars, splitVars, extractVars, modelVars, thresholdVars, chunkVars, taskPoll, taskFinal, timeIdx,
                   userToken, userLock, sessions, sessLock, logs, stats,
                   archive, issueVars, verifyVars, sweepVars, hist>>

\* The worker has not yet called verifyCaptchaAnswer for task p.
TaskToRun(p) == taskState[p] = "PENDING" /\ vresp[p] = NoResp /\ vpc[p] = "idle"

\* captcha_tasks.py verifyCaptchaTask (lines 49-84): when the service call
\* returns a response the task returns its dict (SUCCESS); when it raises,
\* the task records FAILURE and re-raises.
TaskDone(p) ==
    /\ taskState[p] = "PENDING"
    /\ vpc[p] = "idle"
    /\ vresp[p] # NoResp
    /\ taskState' = [taskState EXCEPT ![p] =
                        IF vresp[p] \in {"success", "fail", "timeout"}
                        THEN "SUCCESS" ELSE "FAILURE"]
    /\ UNCHANGED <<settings, featVars, splitVars, extractVars, modelVars, thresholdVars, chunkVars, taskPoll, taskFinal, timeIdx,
                   userToken, userLock, sessions, sessLock, logs, stats,
                   archive, issueVars, verifyVars, sweepVars, hist>>

\* AsyncResult.ready() and AsyncResult.successful().
ready(st) == st \in {"SUCCESS", "FAILURE"}
successful(st) == st = "SUCCESS"

\* Variant of the poll that answers 200 for every finished task.
ReadyMeans200(st) == IF ready(st) THEN 200 ELSE 202

\* captcha_router.py getVerifyResult (lines 126-139): the status code.
getVerifyResult(st) ==
    IF ready(st)
    THEN IF successful(st) THEN 200 ELSE 500
    ELSE 202

\* GET /captcha/verify/result/{taskId} for a submitted task.
PollTask(p) ==
    /\ taskState[p] # "none"
    /\ taskPoll' = [taskPoll EXCEPT ![p] = getVerifyResult(taskState[p])]
    /\ taskFinal' = [taskFinal EXCEPT ![p] =
                        @ \/ getVerifyResult(taskState[p]) \in {200, 500}]
    /\ UNCHANGED <<settings, featVars, splitVars, extractVars, modelVars, thresholdVars, chunkVars, taskState, timeIdx,
                   userToken, userLock, sessions, sessLock, logs, stats,
                   archive, issueVars, verifyVars, sweepVars, hist>>

\* ------------------------------- feature extraction (behavior_service.py)
\* Normalised positions are in tenths of the rectangle, corrected times in
\* microseconds, velocities in tenths per millisecond.
PosScale == 10
UsPerMs == 1000

\* Variant of _to_rect without the test of the area.
RectUnchecked(d) == d

\* _to_rect: (left, top, w, h), or None for a rectangle without area.
_to_rect(d) == IF d = NoRect \/ d[3] <= 0 \/ d[4] <= 0 THEN NoRect ELSE d

\* _roi_rects: the canvas rectangle tracks, the wrapper rectangle is for stats.
_roi_rects(meta) ==
    [rect_track |-> _to_rect(meta.canvas), rect_oob |-> _to_rect(meta.wrapper)]

\* int(v) of a number: the fraction is dropped, towards zero.
int_of(v) ==
    IF v < 0 THEN 0 - ((0 - v) \div TimeFrac) ELSE v \div TimeFrac

\* The points of a moves event: base_t, then one step of int(dt), or of 1
\* when int(dt) is not positive.
RECURSIVE MovePoints(_, _, _, _)
MovePoints(t, dts, xrs, yrs) ==
    IF dts = <<>> \/ xrs = <<>> \/ yrs = <<>> THEN <<>>
    ELSE <<<<t, Head(xrs), Head(yrs)>>>>
         \o MovePoints(t + (IF int_of(Head(dts)) > 0 THEN int_of(Head(dts))
                            ELSE 1),
                       Tail(dts), Tail(xrs), Tail(yrs))

\* out.sort(key=t): a stable insertion of one point.
RECURSIVE InsertByTime(_, _)
InsertByTime(pts, pt) ==
    IF pts = <<>> THEN <<pt>>
    ELSE IF pt[1] < Head(pts)[1] THEN <<pt>> \o pts
    ELSE <<Head(pts)>> \o InsertByTime(Tail(pts), pt)

RECURSIVE SortByTime(_)
SortByTime(pts) ==
    IF pts = <<>> THEN <<>>
    ELSE InsertByTime(SortByTime(SubSeq(pts, 1, Len(pts) - 1)), pts[Len(pts)])

RECURSIVE FlattenAll(_)
FlattenAll(events) ==
    IF events = <<>> THEN <<>>
    ELSE LET ev == Head(events)
             own == IF ev.type \in {"moves", "moves_free"}
                    THEN MovePoints(IF ev.base_t = NoVal THEN 0
                                    ELSE int_of(ev.base_t),
                                    ev.dts, ev.xrs, ev.yrs)
                    ELSE IF ev.type \in {"pointerdown", "pointerup", "click"}
                    THEN IF ev.t = NoVal \/ ev.x = NoVal \/ ev.y = NoVal
                         THEN <<>> ELSE <<<<int_of(ev.t), ev.x, ev.y>>>>
                    ELSE <<>>
         IN  own \o FlattenAll(Tail(events))

RECURSIVE InsertSorted(_, _)
\* Variant of _flatten_events that leaves the points in the order of the
\* events.
FlattenInEventOrder(events) == FlattenAll(events)

\* _flatten_events: the (t, x, y) points of all events, sorted by t.
_flatten_events(events) == SortByTime(FlattenAll(events))

InsertSorted(ns, n) ==
    IF ns = <<>> THEN <<n>>
    ELSE IF n < Head(ns) THEN <<n>> \o ns
    ELSE <<Head(ns)>> \o InsertSorted(Tail(ns), n)

RECURSIVE SortedPositiveDiffs(_)
SortedPositiveDiffs(ts) ==
    IF Len(ts) < 2 THEN <<>>
    ELSE LET rest == SortedPositiveDiffs(SubSeq(ts, 1, Len(ts) - 1))
             d == ts[Len(ts)] - ts[Len(ts) - 1]
         IN  IF d > 0 THEN InsertSorted(rest, d) ELSE rest

\* Twice the median of a sorted list.
TwiceMedian(ns) ==
    IF Len(ns) % 2 = 1 THEN 2 * ns[(Len(ns) + 1) \div 2]
    ELSE ns[Len(ns) \div 2] + ns[Len(ns) \div 2 + 1]

\* _fix_time_units_to_ms, with the result in microseconds: a median step of
\* 1000 or more means the input was in microseconds already, one of 0.01 or
\* less that it was in seconds.
_fix_time_units_to_ms(ts) ==
    LET diffs == SortedPositiveDiffs(ts)
        scale == IF Len(ts) < 2 \/ diffs = <<>> THEN UsPerMs
                 ELSE IF 100 * TwiceMedian(diffs) <= 2 THEN UsPerMs * 1000
                 ELSE IF TwiceMedian(diffs) >= 2000 THEN 1
                 ELSE UsPerMs
    IN  [i \in DOMAIN ts |-> ts[i] * scale]

Max(a, b) == IF a >= b THEN a ELSE b

\* Variant of _norm_xy that takes the flag from the clamped position.
NormFlagAfterClamp(x_raw, y_raw, rect) ==
    LET w == Max(PxUnit, rect[3])
        h == Max(PxUnit, rect[4])
        x == Min(PosScale, Max(0, ((x_raw - rect[1]) * PosScale) \div w))
        y == Min(PosScale, Max(0, ((y_raw - rect[2]) * PosScale) \div h))
    IN  [x |-> x, y |-> y,
         oob |-> IF x < 0 \/ x > PosScale \/ y < 0 \/ y > PosScale
                 THEN 1 ELSE 0]

\* _norm_xy: the position inside the rectangle, clamped, and whether the
\* raw position was outside.
_norm_xy(x_raw, y_raw, rect) ==
    LET w == Max(PxUnit, rect[3])
        h == Max(PxUnit, rect[4])
        dx == x_raw - rect[1]
        dy == y_raw - rect[2]
    IN  [x |-> Min(PosScale, Max(0, (dx * PosScale) \div w)),
         y |-> Min(PosScale, Max(0, (dy * PosScale) \div h)),
         oob |-> IF dx < 0 \/ dx > w \/ dy < 0 \/ dy > h THEN 1 ELSE 0]

\* The integer square root, by bisection.
RECURSIVE SqrtBetween(_, _, _)
SqrtBetween(n, lo, hi) ==
    IF hi - lo <= 1 THEN lo
    ELSE LET mid == (lo + hi) \div 2
         IN  IF mid * mid <= n THEN SqrtBetween(n, mid, hi)
             ELSE SqrtBetween(n, lo, mid)
Sqrt(n) == SqrtBetween(n, 0, 46341)

\* np.diff(a, prepend=a[0]).
Diff(a) == [i \in DOMAIN a |-> IF i = 1 THEN 0 ELSE a[i] - a[i - 1]]

Abs(a) == IF a < 0 THEN 0 - a ELSE a
\* a / b rounded towards zero, b > 0.
Quot(a, b) == IF a < 0 THEN 0 - (Abs(a) \div b) ELSE a \div b

RECURSIVE SumSeq(_)
SumSeq(a) == IF a = <<>> THEN 0 ELSE Head(a) + SumSeq(Tail(a))

NoWindow == <<>>

ZeroRow == <<0, 0, 0, 0, 0, 0, 0>>
\* Variant of the length normalisation that keeps the oldest rows.
KeepOldest(rows) ==
    IF Len(rows) < WindowRows
    THEN rows \o [i \in 1..(WindowRows - Len(rows)) |-> ZeroRow]
    ELSE SubSeq(rows, 1, WindowRows)

\* Step 6 of build_window_7ch: zero rows appended up to T, or the last T
\* rows kept.
LengthNormalize(rows) ==
    IF Len(rows) < WindowRows
    THEN rows \o [i \in 1..(WindowRows - Len(rows)) |-> ZeroRow]
    ELSE SubSeq(rows, Len(rows) - WindowRows + 1, Len(rows))

\* Steps 1-7 of build_window_7ch on the flattened points.
window_of(rects, pts) ==
    LET n == Len(pts)
        canvas == [i \in 1..n |-> _norm_xy(pts[i][2], pts[i][3], rects.rect_track)]
        wrap == [i \in 1..n |->
                    IF rects.rect_oob = NoRect THEN 0
                    ELSE _norm_xy(pts[i][2], pts[i][3], rects.rect_oob).oob]
        ts == _fix_time_units_to_ms([i \in 1..n |-> pts[i][1]])
        dt == [i \in 1..n |-> Max(Diff(ts)[i], 1)]
        xs == [i \in 1..n |-> canvas[i].x]
        ys == [i \in 1..n |-> canvas[i].y]
        vx == [i \in 1..n |-> IF n < 2 THEN 0
                                ELSE Quot(Diff(xs)[i] * UsPerMs, dt[i])]
        vy == [i \in 1..n |-> IF n < 2 THEN 0
                                ELSE Quot(Diff(ys)[i] * UsPerMs, dt[i])]
        speed == [i \in 1..n |-> Sqrt(vx[i] * vx[i] + vy[i] * vy[i])]
        accel == [i \in 1..n |-> IF n < 2 THEN 0
                                   ELSE Quot(Diff(speed)[i] * UsPerMs, dt[i])]
        rows == [i \in 1..n |-> <<xs[i], ys[i], vx[i], vy[i], speed[i],
                                   accel[i], canvas[i].oob>>]
        X == LengthNormalize(rows)
    IN  [X |-> X, raw_len |-> n, has_track |-> TRUE,
         has_wrap |-> rects.rect_oob # NoRect,
         oob_canvas_rate |-> (100 * SumSeq([i \in 1..n |-> canvas[i].oob])) \div n,
         oob_wrapper_rate |-> (100 * SumSeq(wrap)) \div n]

\* Variant of the extraction that closes the trace at the wall clock: the
\* last point is held until now.
build_window_until_now(meta, events) ==
    LET rects == _roi_rects(meta)
        pts == _flatten_events(events)
    IN  IF rects.rect_track = NoRect
        THEN [X |-> NoWindow, raw_len |-> 0, has_track |-> FALSE,
              has_wrap |-> rects.rect_oob # NoRect,
              oob_canvas_rate |-> 0, oob_wrapper_rate |-> 0]
        ELSE IF pts = <<>>
        THEN [X |-> NoWindow, raw_len |-> 0, has_track |-> TRUE,
              has_wrap |-> rects.rect_oob # NoRect,
              oob_canvas_rate |-> 0, oob_wrapper_rate |-> 0]
        ELSE window_of(rects,
                       Append(pts, <<pts[Len(pts)][1] + now,
                                     pts[Len(pts)][2], pts[Len(pts)][3]>>))

\* build_window_7ch(meta, events, T): the (T, 7) tensor, or None without a
\* canvas rectangle or without points, and the summary values.
build_window_7ch(meta, events) ==
    LET rects == _roi_rects(meta)
        pts == _flatten_events(events)
    IN  IF rects.rect_track = NoRect
        THEN [X |-> NoWindow, raw_len |-> 0, has_track |-> FALSE,
              has_wrap |-> rects.rect_oob # NoRect,
              oob_canvas_rate |-> 0, oob_wrapper_rate |-> 0]
        ELSE IF pts = <<>>
        THEN [X |-> NoWindow, raw_len |-> 0, has_track |-> TRUE,
              has_wrap |-> rects.rect_oob # NoRect,
              oob_canvas_rate |-> 0, oob_wrapper_rate |-> 0]
        ELSE window_of(rects, pts)

\* seq_stats: the summary of a window; speed_mean is kept as the sum of the
\* speed channel over its rows.
seq_stats(w) ==
    IF w.X = NoWindow
    THEN [oob_rate_canvas |-> 0, oob_rate_wrapper |-> 0,
          speed_sum |-> 0, n_events |-> 0,
          roi_has_canvas |-> w.has_track, roi_has_wrapper |-> w.has_wrap]
    ELSE [oob_rate_canvas |-> w.oob_canvas_rate,
          oob_rate_wrapper |-> w.oob_wrapper_rate,
          speed_sum |-> SumSeq([i \in DOMAIN w.X |-> w.X[i][5]]),
          n_events |-> w.raw_len,
          roi_has_canvas |-> w.has_track, roi_has_wrapper |-> w.has_wrap]

\* One run of the extraction, as run_behavior_verification makes it.
ExtractFeatures(x) ==
    /\ featRuns[x] < MaxRuns
    /\ LET w == build_window_7ch(Metas[x[1]], EventLists[x[2]])
       IN featSeen' = [featSeen EXCEPT ![x] =
                          @ \cup {[window |-> w, stats |-> seq_stats(w)]}]
    /\ featRuns' = [featRuns EXCEPT ![x] = @ + 1]
    /\ UNCHANGED <<settings, splitVars, extractVars, modelVars, thresholdVars, chunkVars, taskVars, timeIdx, userToken, userLock,
                   sessions, sessLock, logs, stats, archive, issueVars,
                   verifyVars, sweepVars, hist>>

\* Whether _flatten_events ends in an exception: ev.get on an element that
\* is no object, int() of a non-numeric base_t, t or delta, float() of a
\* non-numeric or null coordinate. Of a moves event only the first
\* min(len(dts), len(xrs), len(yrs)) samples are read.
Rejected(v) == v = BadNum
MovesRaise(ev) ==
    \/ Rejected(ev.base_t)
    \/ \E i \in 1..Min(Len(ev.dts), Min(Len(ev.xrs), Len(ev.yrs))) :
          \/ ev.xrs[i] \in {BadNum, NoVal}
          \/ ev.yrs[i] \in {BadNum, NoVal}
          \/ ev.dts[i] \in {BadNum, NoVal}
EventRaises(ev) ==
    IF ev = NotAnObject THEN TRUE
    ELSE IF ev.type \in {"moves", "moves_free"} THEN MovesRaise(ev)
    ELSE IF ev.type \in {"pointerdown", "pointerup", "click"}
    THEN /\ ev.t # NoVal /\ ev.x # NoVal /\ ev.y # NoVal
         /\ (Rejected(ev.t) \/ Rejected(ev.x) \/ Rejected(ev.y))
    ELSE FALSE
FlattenRaises(events) == \E i \in DOMAIN events : EventRaises(events[i])

\* One call of build_window_7ch(meta, events): whether it raised, what it
\* returned, and its locals pts and ts (after the unit correction).
RunExtraction(x) ==
    /\ LET meta == AllMetas[x[1]]
           events == AllEventLists[x[2]]
           tracked == _roi_rects(meta).rect_track # NoRect
           pts == _flatten_events(events)
       IN  exOut' =
             IF tracked /\ FlattenRaises(events)
             THEN [raised |-> TRUE, window |-> <<>>, pts |-> <<>>, ts |-> <<>>]
             ELSE [raised |-> FALSE,
                   window |-> build_window_7ch(meta, events),
                   pts |-> IF tracked THEN pts ELSE <<>>,
                   ts |-> IF tracked /\ pts # <<>>
                          THEN _fix_time_units_to_ms(
                                   [i \in DOMAIN pts |-> pts[i][1]])
                          ELSE <<>>]
    /\ exIn' = x
    /\ UNCHANGED <<settings, featVars, splitVars, modelVars, thresholdVars, chunkVars, taskVars, timeIdx, userToken, userLock,
                   sessions, sessLock, logs, stats, archive, issueVars,
                   verifyVars, sweepVars, hist>>

\* ------------------------- the model and threshold singletons (lines 50-91)
\* Everything but the two singletons.
restVars ==
    <<settings, featVars, splitVars, extractVars, chunkVars, taskVars,
      timeIdx, userToken, userLock, sessions, sessLock, logs, stats, archive,
      issueVars, verifyVars, sweepVars, hist>>

\* Line 76: the check outside the lock.
GetModelCheck(p) ==
    /\ mpc[p] = "idle"
    /\ mpc' = [mpc EXCEPT ![p] = IF _MODEL # NoModel THEN "fast" ELSE "lock"]
    /\ UNCHANGED <<_MODEL, _MODEL_LOCK, mret, thresholdVars, restVars>>

\* Line 77: return _MODEL.
GetModelFastReturn(p) ==
    /\ mpc[p] = "fast"
    /\ mret' = [mret EXCEPT ![p] = _MODEL]
    /\ mpc' = [mpc EXCEPT ![p] = "idle"]
    /\ UNCHANGED <<_MODEL, _MODEL_LOCK, thresholdVars, restVars>>

\* Line 78: with _MODEL_LOCK.
GetModelAcquire(p) ==
    /\ mpc[p] = "lock"
    /\ _MODEL_LOCK = FreeLock
    /\ _MODEL_LOCK' = p
    /\ mpc' = [mpc EXCEPT ![p] = "locked"]
    /\ UNCHANGED <<_MODEL, mret, thresholdVars, restVars>>

\* Line 79: the check under the lock.
GetModelRecheck(p) ==
    /\ mpc[p] = "locked"
    /\ mpc' = [mpc EXCEPT ![p] = IF _MODEL # NoModel THEN "ret" ELSE "load"]
    /\ UNCHANGED <<_MODEL, _MODEL_LOCK, mret, thresholdVars, restVars>>

\* Lines 81-90: build the network and load best.pt into it; the handle is
\* assigned when the load went through and set to None when it raised.
GetModelLoad(p, ok) ==
    /\ mpc[p] = "load"
    /\ _MODEL' = IF ok THEN ModelLoadedBy(p) ELSE NoModel
    /\ mpc' = [mpc EXCEPT ![p] = "ret"]
    /\ UNCHANGED <<_MODEL_LOCK, mret, thresholdVars, restVars>>

\* Lines 80 and 91: return _MODEL, leaving the with block.
GetModelReturn(p) ==
    /\ mpc[p] = "ret"
    /\ mret' = [mret EXCEPT ![p] = _MODEL]
    /\ _MODEL_LOCK' = FreeLock
    /\ mpc' = [mpc EXCEPT ![p] = "idle"]
    /\ UNCHANGED <<_MODEL, thresholdVars, restVars>>

\* Line 58: if _THRESHOLD is not None.
ThresholdCheck(p) ==
    /\ tpc[p] = "idle"
    /\ tpc' = [tpc EXCEPT ![p] = IF _THRESHOLD # NoVal THEN "ret" ELSE "read"]
    /\ UNCHANGED <<_THRESHOLD, thrFile, tret, modelVars, restVars>>

\* Lines 60-65: read val_threshold from thresholds.json; 0.5 when the file
\* cannot be read.
ThresholdRead(p) ==
    /\ tpc[p] = "read"
    /\ _THRESHOLD' = IF thrFile # NoVal THEN thrFile ELSE DefaultThreshold
    /\ tpc' = [tpc EXCEPT ![p] = "ret"]
    /\ UNCHANGED <<thrFile, tret, modelVars, restVars>>

\* Lines 59 and 66: return _THRESHOLD.
ThresholdReturn(p) ==
    /\ tpc[p] = "ret"
    /\ tret' = [tret EXCEPT ![p] = _THRESHOLD]
    /\ tpc' = [tpc EXCEPT ![p] = "idle"]
    /\ UNCHANGED <<_THRESHOLD, thrFile, modelVars, restVars>>

\* The artifacts directory: thresholds.json is put in place or taken away.
ThresholdFileChanges ==
    /\ thrFile' = IF thrFile = NoVal THEN FileThreshold ELSE NoVal
    /\ UNCHANGED <<_THRESHOLD, tpc, tret, modelVars, restVars>>

\* ------------------------------ chunked upload (captcha_verify_test.py)
\* The event counts of the recorded sessions that are sent.
EventCounts ==
    {0, 1, CHUNK_SIZE, CHUNK_SIZE + 1, 2 * CHUNK_SIZE + 1,
     (MaxSplit - 1) * CHUNK_SIZE, (MaxSplit - 1) * CHUNK_SIZE + 1}

\* Line 273: the events of the recorded session, each one distinct.
test_events(n) == [k \in 1..n |-> k]

\* Line 276: (total_events + CHUNK_SIZE - 1) // CHUNK_SIZE.
total_chunks(n) == (n + CHUNK_SIZE - 1) \div CHUNK_SIZE

\* Lines 283-285: all_events[i * CHUNK_SIZE : min((i + 1) * CHUNK_SIZE, n)].
chunk_events(n, i) ==
    SubSeq(test_events(n), i * CHUNK_SIZE + 1, Min((i + 1) * CHUNK_SIZE, n))

\* Variant of the store write that keeps the object already stored under the key.
PutKeepsOld(objs, obj) == Append(objs, obj)

\* ks3.py lines 76-82: put_object stores the object under its key, in the
\* place of the object that the key held before.
s3_client_put_object(objs, obj) ==
    IF \E n \in DOMAIN objs : objs[n].key = obj.key
    THEN [n \in DOMAIN objs |-> IF objs[n].key = obj.key THEN obj ELSE objs[n]]
    ELSE Append(objs, obj)

\* ks3.py lines 74-82: the object written for chunk i of total.
upload_behavior_chunk(i, total, events) ==
    [key |-> ChunkKey(i, total), events |-> events]

\* Lines 262-276: the recorded session is loaded and its chunk count fixed.
LoadSession(n) ==
    /\ splitN = NoVal
    /\ splitN' = n
    /\ UNCHANGED <<settings, featVars, extractVars, modelVars, thresholdVars, splitSent, splitPending, splitBucket, splitResent,
                   chunkVars, taskVars, timeIdx, userToken, userLock,
                   sessions, sessLock, logs, stats, archive, issueVars,
                   verifyVars, sweepVars, hist>>

\* Lines 282-294 and send_event_chunk: the next chunk of the loop is posted
\* and answered; its store write is left to the background task.
send_event_chunk ==
    /\ splitN # NoVal
    /\ splitSent < total_chunks(splitN)
    /\ Cardinality(splitPending) < MaxPending
    /\ splitPending' = splitPending \cup {splitSent}
    /\ splitSent' = splitSent + 1
    /\ UNCHANGED <<settings, featVars, extractVars, modelVars, thresholdVars, splitN, splitBucket, splitResent,
                   chunkVars, taskVars, timeIdx, userToken, userLock,
                   sessions, sessLock, logs, stats, archive, issueVars,
                   verifyVars, sweepVars, hist>>

\* event_service.py process_event_chunk for a chunk of the test session:
\* the background task of an answered chunk writes its object.
StoreSentChunk(i) ==
    /\ i \in splitPending
    /\ splitPending' = splitPending \ {i}
    /\ splitBucket' = s3_client_put_object(splitBucket,
                                 upload_behavior_chunk(i, total_chunks(splitN),
                                                       chunk_events(splitN, i)))
    /\ UNCHANGED <<settings, featVars, extractVars, modelVars, thresholdVars, splitN, splitSent, splitResent,
                   chunkVars, taskVars, timeIdx, userToken, userLock,
                   sessions, sessLock, logs, stats, archive, issueVars,
                   verifyVars, sweepVars, hist>>

\* events_router.py receive_event_chunk for a chunk that was posted before:
\* the delivery is repeated, answered, and handed to a background task.
redeliver_event_chunk(i) ==
    /\ splitN # NoVal
    /\ i < splitSent
    /\ i \notin splitPending
    /\ Cardinality(splitPending) < MaxPending
    /\ splitResent < MaxResend
    /\ splitPending' = splitPending \cup {i}
    /\ splitResent' = splitResent + 1
    /\ UNCHANGED <<settings, featVars, extractVars, modelVars, thresholdVars, splitN, splitSent, splitBucket,
                   chunkVars, taskVars, timeIdx, userToken, userLock,
                   sessions, sessLock, logs, stats, archive, issueVars,
                   verifyVars, sweepVars, hist>>

NextIssue ==
    \/ Tick
    \/ \E q \in Issuers : IssueLock(q)
    \/ \E q \in Issuers : IssueRun(q)

SpecIssue == Init /\ [][NextIssue]_vars

Tokens == 0..MaxSessions

\* The whole system.
Next ==
    \/ Tick
    \/ \E q \in Issuers : IssueLock(q)
    \/ \E q \in Issuers : IssueRun(q)
    \/ \E p \in Verifiers, tok \in Tokens, ans \in Answers, sOk \in BOOLEAN :
          VerifyLock(p, tok, ans, sOk)
    \/ \E p \in Verifiers, rec \in download_behavior_chunks(settings),
          modelLoaded \in BOOLEAN, prob \in Probs :
          VerifyScore(p, rec, modelLoaded, prob)
    \/ \E p \in Verifiers : VerifyCommit(p)
    \/ \E p \in Verifiers : VerifyAbort(p)
    \/ SchedulerQuery
    \/ SchedulerCommit
    \/ CeleryQuery
    \/ CeleryCommit
    \/ \E t \in ChunkTokens, i \in ChunkIndices : ReceiveChunk(t, i)
    \/ \E t \in ChunkTokens, i \in ChunkIndices, ok \in BOOLEAN :
          ProcessChunk(t, i, ok)
    \/ \E t \in ChunkTokens : ArchiveRun(t)
    \/ \E p \in Verifiers : SubmitTask(p)
    \/ \E p \in Verifiers : TaskDone(p)
    \/ \E p \in Verifiers : PollTask(p)
    \/ \E x \in FeatInputs : ExtractFeatures(x)
    \/ \E n \in EventCounts : LoadSession(n)
    \/ send_event_chunk
    \/ \E i \in 0..(MaxSplit - 1) : StoreSentChunk(i)
    \/ \E x \in ExtractInputs : RunExtraction(x)
    \/ \E p \in Verifiers : GetModelCheck(p)
    \/ \E p \in Verifiers : GetModelFastReturn(p)
    \/ \E p \in Verifiers : GetModelAcquire(p)
    \/ \E p \in Verifiers : GetModelRecheck(p)
    \/ \E p \in Verifiers, ok \in BOOLEAN : GetModelLoad(p, ok)
    \/ \E p \in Verifiers : GetModelReturn(p)
    \/ \E p \in Verifiers : ThresholdCheck(p)
    \/ \E p \in Verifiers : ThresholdRead(p)
    \/ \E p \in Verifiers : ThresholdReturn(p)
    \/ ThresholdFileChanges
    \/ \E i \in 0..(MaxSplit - 1) : redeliver_event_chunk(i)

Spec == Init /\ [][Next]_vars

\* One client with a full balance issuing up to MaxSessions sessions and
\* verifying them, with every behaviour, classifier and request input.
InitVerify ==
    /\ Init
    /\ userToken = MaxBalance
    /\ settings.KS3_BASE_URL

NextVerify ==
    \/ Tick
    \/ (Len(sessions) < MaxSessions /\ IssueLock(1))
    \/ IssueRun(1)
    \/ \E tok \in Tokens, ans \in Answers, sOk \in BOOLEAN :
          VerifyLock(1, tok, ans, sOk)
    \/ \E rec \in download_behavior_chunks(settings),
          modelLoaded \in BOOLEAN, prob \in Probs :
          VerifyScore(1, rec, modelLoaded, prob)
    \/ VerifyCommit(1)
    \/ VerifyAbort(1)

SpecVerify == InitVerify /\ [][NextVerify]_vars

\* Concurrent verifiers and both sweeps over up to MaxSessions sessions, with
\* the behaviour inputs narrowed to no data or one mouse trace.
RaceRecs ==
    {[NoData EXCEPT !.store = "ok"],
     [meta |-> "mouse", hasEvents |-> TRUE, extractOk |-> TRUE, oob |-> 30,
      speedZero |-> FALSE, malformed |-> FALSE, store |-> "ok"]}

InitRace ==
    /\ Init
    /\ userToken = MaxBalance
    /\ settings = [ENABLE_KS3 |-> TRUE, KS3_BASE_URL |-> TRUE]

NextRace ==
    \/ Tick
    \/ (Len(sessions) < MaxSessions /\ IssueLock(1))
    \/ IssueRun(1)
    \/ \E p \in Verifiers, tok \in Tokens, ans \in Answers, sOk \in BOOLEAN :
          VerifyLock(p, tok, ans, sOk)
    \/ \E p \in Verifiers, rec \in RaceRecs, prob \in Probs :
          VerifyScore(p, rec, TRUE, prob)
    \/ \E p \in Verifiers : VerifyCommit(p)
    \/ \E p \in Verifiers : VerifyAbort(p)
    \/ SchedulerQuery
    \/ SchedulerCommit
    \/ CeleryQuery
    \/ CeleryCommit

SpecRace == InitRace /\ [][NextRace]_vars

\* The concurrent system with the scheduling the deployment gives it: the
\* clock advances, and the interval job of scheduler.py (lines 67-70, every
\* minute) keeps being run to its end.
SpecLive ==
    /\ SpecRace
    /\ WF_vars(Tick)
    /\ WF_vars(SchedulerQuery)
    /\ WF_vars(SchedulerCommit)

\* Chunk ingestion and archival beside one verifier, at a fixed instant.
NextChunk ==
    \/ (Len(sessions) < MaxSessions /\ IssueLock(1))
    \/ IssueRun(1)
    \/ \E tok \in ChunkTokens, ans \in Answers : VerifyLock(1, tok, ans, TRUE)
    \/ \E rec \in RaceRecs, prob \in Probs : VerifyScore(1, rec, TRUE, prob)
    \/ VerifyCommit(1)
    \/ VerifyAbort(1)
    \/ \E t \in ChunkTokens, i \in ChunkIndices : ReceiveChunk(t, i)
    \/ \E t \in ChunkTokens, i \in ChunkIndices, ok \in BOOLEAN :
          ProcessChunk(t, i, ok)
    \/ \E t \in ChunkTokens : ArchiveRun(t)

SpecChunk == InitRace /\ [][NextChunk]_vars

\* The asynchronous deployment: every verify is a submitted task that a
\* worker runs once, and clients poll for the result.
NextTask ==
    \/ Tick
    \/ (Len(sessions) < MaxSessions /\ IssueLock(1))
    \/ IssueRun(1)
    \/ \E p \in Verifiers : SubmitTask(p)
    \/ \E p \in Verifiers, tok \in Tokens, ans \in Answers, sOk \in BOOLEAN :
          TaskToRun(p) /\ VerifyLock(p, tok, ans, sOk)
    \/ \E p \in Verifiers, rec \in RaceRecs, prob \in Probs :
          VerifyScore(p, rec, TRUE, prob)
    \/ \E p \in Verifiers : VerifyCommit(p)
    \/ \E p \in Verifiers : VerifyAbort(p)
    \/ \E p \in Verifiers : TaskDone(p)
    \/ \E p \in Verifiers : PollTask(p)

SpecTask == InitRace /\ [][NextTask]_vars

\* Feature extraction run again and again on a fixed set of inputs while
\* the wall clock advances.
NextFeature ==
    \/ Tick
    \/ \E x \in FeatInputs : ExtractFeatures(x)

SpecFeature == InitRace /\ [][NextFeature]_vars

\* Feature extraction called on one input after another, while the wall
\* clock advances.
NextExtract ==
    \/ Tick
    \/ \E x \in ExtractInputs : RunExtraction(x)

SpecExtract == InitRace /\ [][NextExtract]_vars

\* The worker threads of one process calling get_model and get_threshold,
\* while the artifacts directory changes.
NextModel ==
    \/ \E p \in Verifiers : GetModelCheck(p)
    \/ \E p \in Verifiers : GetModelFastReturn(p)
    \/ \E p \in Verifiers : GetModelAcquire(p)
    \/ \E p \in Verifiers : GetModelRecheck(p)
    \/ \E p \in Verifiers, ok \in BOOLEAN : GetModelLoad(p, ok)
    \/ \E p \in Verifiers : GetModelReturn(p)
    \/ \E p \in Verifiers : ThresholdCheck(p)
    \/ \E p \in Verifiers : ThresholdRead(p)
    \/ \E p \in Verifiers : ThresholdReturn(p)
    \/ ThresholdFileChanges

SpecModel == InitRace /\ [][NextModel]_vars

\* The test client: a recorded session is split into chunks that are posted
\* in order, while the store writes of the answered chunks run behind.
NextSplit ==
    \/ \E n \in EventCounts : LoadSession(n)
    \/ send_event_chunk
    \/ \E i \in 0..(MaxSplit - 1) : StoreSentChunk(i)

SpecSplit == InitRace /\ [][NextSplit]_vars

\* The same with deliveries that are repeated, for sessions of one to four
\* chunks.
ResendCounts ==
    {1, CHUNK_SIZE + 1, 2 * CHUNK_SIZE + 1, 3 * CHUNK_SIZE, 3 * CHUNK_SIZE + 1}
NextResend ==
    \/ \E n \in ResendCounts : LoadSession(n)
    \/ send_event_chunk
    \/ \E i \in 0..(MaxSplit - 1) : StoreSentChunk(i)
    \/ \E i \in 0..(MaxSplit - 1) : redeliver_event_chunk(i)

SpecResend == InitRace /\ [][NextResend]_vars

\* ================================================================ claims
Results == {"success", "fail", "timeout"}
VerifyLogs(sid) == {i \in DOMAIN logs[sid] : logs[sid][i].by = "verify"}
InFlight(p) == vpc[p] # "idle"
\* Verifier p leaves the locked position in this step (it ran lines 185-285).
Scored(p) == vpc[p] = "locked" /\ vpc'[p] # "locked"
LatencyOf(p) == now - sessions[vreq[p].token].createdAt
AnswerCorrect(p) == vreq[p].answer = sessions[vreq[p].token].answer
\* None of the four rules of RuleCheckService would fire on this verify.
NoRuleFires(p) ==
    /\ ~check_time_constraint(vctx[p].latency)
    /\ ~check_no_scratching(vctx[p].rec)
    /\ ~check_no_mouse_movement(vctx[p].rec)
    /\ ~check_device_type(vctx[p].rec)

\* C1: in every reachable state each session has at most one VerificationLog,
\* whatever the interleaving of verifies and sweeps.
C1_AtMostOneLogPerSession ==
    \A sid \in SessionIds : Len(logs[sid]) <= 1

C3_AlreadyVerifiedNoOp ==
    [][\A p \in Verifiers :
          (Scored(p) /\ Len(logs[vreq[p].token]) > 0)
              => /\ vresp'[p] = "AlreadyVerified"
                 /\ vpc'[p] = "idle"
                 /\ UNCHANGED <<logs, stats, userToken, archive, sessions,
                                vctx, staged>>]_vars

\* C3 witness: a verify was answered AlreadyVerified and the session still
\* has its one log and the key its one counted result.
C3_Witness ==
    \E p \in Verifiers, sid \in SessionIds :
        /\ vresp[p] = "AlreadyVerified"
        /\ Len(logs[sid]) = 1
        /\ stats.success + stats.fail + stats.timeout = 1

IssuesDone == \A q \in Issuers : ipc[q] = "idle"

\* C4: with initial balance n and k issue calls made, the balance is never
\* negative, at most n calls succeed, a call is refused for quota only when
\* all n were sold, and once the k calls are done (none failing for another
\* reason) exactly min(n, k) succeeded and the others got QuotaExhausted.
C4_QuotaRace ==
    /\ userToken >= 0
    /\ Len(sessions) <= hist.initToken
    /\ hist.q402 > 0 => Len(sessions) = hist.initToken
    /\ (IssuesDone /\ hist.qerr = 0)
          => /\ Len(sessions) = Min(hist.initToken, hist.calls)
             /\ hist.q402 = hist.calls - Len(sessions)

\* C4 witness: two calls on balance 1 ended in one session and one
\* QuotaExhausted.
C4_Witness ==
    /\ hist.initToken = 1
    /\ hist.calls = 2
    /\ IssuesDone
    /\ Len(sessions) = 1
    /\ hist.q402 = 1
    /\ \E q, r \in Issuers :
          q # r /\ iresp[q] = "ok" /\ iresp[r] = "QuotaExhausted"

C6_TimeoutBoundary ==
    /\ [][\A p \in Verifiers :
             (Scored(p) /\ Len(logs[vreq[p].token]) = 0)
                 => /\ vpc'[p] = "commit"
                    /\ LatencyOf(p) < TimeoutMs
                          => staged'[p].result \in {"success", "fail"}
                    /\ LatencyOf(p) > TimeoutMs
                          => /\ staged'[p] = TimeoutLog(LatencyOf(p), "verify")
                             /\ ~vctx'[p].inferred
                             /\ vctx'[p].rec = NoData]_vars
    /\ [][\A p \in Verifiers :
             (vpc[p] = "commit" /\ vpc'[p] = "idle"
                  /\ vresp'[p] # "InternalError")
                 => /\ logs'[vreq[p].token]
                          = Append(logs[vreq[p].token], staged[p])
                    /\ vresp'[p] = staged[p].result]_vars

\* C7: when no rule fires, a wrong answer stages FAIL and a correct answer
\* stages SUCCESS exactly when the classifier's verdict is human.
C7_Fusion ==
    \A p \in Verifiers :
        (vpc[p] = "commit" /\ ~IsTimedOut(vctx[p].latency) /\ NoRuleFires(p))
            => /\ ~AnswerCorrect(p) => staged[p].result = "fail"
               /\ AnswerCorrect(p)
                     => (staged[p].result = "success"
                            <=> vctx[p].clsVerdict = "human")

\* C7 witness (scenario A): correct answer, latency 2.0 s, canvas OOB 30%,
\* p = 0.2 below the threshold 0.5, result success.
C7_Witness ==
    \E p \in Verifiers :
        /\ vpc[p] = "commit"
        /\ AnswerCorrect(p)
        /\ vctx[p].latency = 2000
        /\ vctx[p].rec.oob = 30
        /\ ~vctx[p].rec.speedZero
        /\ vctx[p].rec.meta = "mouse"
        /\ vctx[p].prob = 20
        /\ staged[p].result = "success"

\* C8: a verify whose latency is below the timing floor resolves FAIL, in
\* particular when the answer is correct and the classifier says human.
C8_TimingFloorFails ==
    \A p \in Verifiers :
        (/\ vpc[p] = "commit"
         /\ check_time_constraint(vctx[p].latency)
         /\ AnswerCorrect(p)
         /\ vctx[p].clsVerdict = "human")
            => staged[p].result = "fail"

\* C9: a verify within the response window whose reconstructed behaviour has
\* canvas OOB rate 100% resolves fail with verdict bot and logs
\* ml_is_bot = true, whatever the classifier's probability and the answer.
C9_NoInteractionFails ==
    \A p \in Verifiers :
        (/\ vpc[p] = "commit"
         /\ ~IsTimedOut(vctx[p].latency)
         /\ vctx[p].inferred
         /\ check_no_scratching(vctx[p].rec))
            => /\ staged[p].result = "fail"
               /\ vctx[p].verdict = "bot"
               /\ staged[p].isBot = "true"

\* C10: with behaviour data present, the classifier unavailable and no rule
\* fired, a verify within the response window resolves SUCCESS on a correct
\* answer and FAIL on a wrong one.
C10_ClassifierUnavailableFallback ==
    \A p \in Verifiers :
        (/\ vpc[p] = "commit"
         /\ ~IsTimedOut(vctx[p].latency)
         /\ vctx[p].rec.hasEvents
         /\ vctx[p].rec.meta # "none"
         /\ ~vctx[p].modelLoaded
         /\ NoRuleFires(p))
            => /\ AnswerCorrect(p) => staged[p].result = "success"
               /\ ~AnswerCorrect(p) => staged[p].result = "fail"

StoreDown == {"disabled"} \cup StoreFailures

C12_ArchiveOnlyOnSuccess ==
    \A sid \in archive :
        \/ \E i \in DOMAIN logs[sid] : logs[sid][i].result = "success"
        \/ \E p \in Verifiers :
              /\ vpc[p] = "commit"
              /\ vreq[p].token = sid
              /\ staged[p].result = "success"

\* The number of committed logs with result r, over all sessions of the key.
RECURSIVE LogCountUpTo(_, _)
LogCountUpTo(n, r) ==
    IF n = 0 THEN 0
    ELSE LogCountUpTo(n - 1, r)
         + Cardinality({i \in DOMAIN logs[n] : logs[n][i].result = r})
LogCount(r) == LogCountUpTo(Len(logs), r)

\* C13: in every state the committed logs with each result are as many as the
\* results counted for the key, and a verify that ends in an error changes
\* neither the logs nor the counters.
C13_LogAndCounterTogether ==
    /\ [](\A r \in Results : LogCount(r) = stats[r])
    /\ [][\A p \in Verifiers :
             (InFlight(p) /\ vpc'[p] = "idle" /\ vresp'[p] \notin Results)
                 => UNCHANGED <<logs, stats>>]_vars
C13_Witness ==
    /\ \E p \in Verifiers : vresp[p] = "InternalError"
    /\ LogCount("success") + LogCount("fail") >= 1
    /\ LogCount("timeout") >= 1

C15_SweepSkipsLockedSessions ==
    [][\A sid \in SessionIds :
          (sessLock[sid] \in Verifiers /\ logs'[sid] # logs[sid])
              => /\ vpc[sessLock[sid]] = "commit"
                 /\ vpc'[sessLock[sid]] = "idle"
                 /\ logs'[sid] = Append(logs[sid], staged[sessLock[sid]])]_vars

\* C16: a verify answered InvalidToken changes no session, lock, log, counter,
\* quota or archival, and a verify whose token matches no session never gets
\* past the lookup.
C16_InvalidTokenChangesNothing ==
    /\ [][\A p \in Verifiers :
             (vresp[p] # "InvalidToken" /\ vresp'[p] = "InvalidToken")
                 => /\ UNCHANGED <<sessions, sessLock, logs, stats, userToken,
                                   archive, staged>>
                    /\ vpc[p] = "idle" /\ vpc'[p] = "idle"]_vars
    /\ [](\A p \in Verifiers : InFlight(p) => vreq[p].token \in SessionIds)
C16_Witness ==
    /\ vresp[1] = "InvalidToken"
    /\ Len(sessions) >= 1
    /\ Len(logs[1]) = 0
    /\ userToken < MaxBalance

\* The indices of the chunks stored for a session, whatever order they came in.
StoredIndices(t) == {i \in ChunkIndices : chunkState[t][i] = "stored"}

\* The events of a set of chunks, concatenated in increasing chunk index.
RECURSIVE EventsByIndex(_)
EventsByIndex(S) ==
    IF S = {} THEN <<>>
    ELSE LET lo == CHOOSE i \in S : \A j \in S : i <= j
         IN  ChunkEvents(lo) \o EventsByIndex(S \ {lo})

\* C17: whatever order a session's chunks were stored in, the merged event
\* list is the events of the stored chunks in increasing chunk index.
C17_ReconstructionOrderIndependent ==
    \A t \in ChunkTokens :
        all_events(arrival[t]) = EventsByIndex(StoredIndices(t))
\* Chunks 1, 0, 2 stored in that order.
C17_Witness ==
    \E t \in ChunkTokens :
        /\ Len(arrival[t]) = 3
        /\ IndexOfKey(arrival[t][1].key) = 1
        /\ IndexOfKey(arrival[t][2].key) = 0
        /\ IndexOfKey(arrival[t][3].key) = 2

\* C18: what the archival task of a session read holds no event of a chunk
\* that came in after the session's log was written.
C18_LateChunksNeverRead ==
    \A t \in ChunkTokens :
        merged[t].read =>
            \A n \in DOMAIN merged[t].events :
                merged[t].events[n].chunk \notin late[t]

ChunkCells == ChunkTokens \X ChunkIndices

\* C19: a chunk is answered 200 from the moment it is accepted, while its
\* store write is pending and whatever that write comes to; and a step of
\* chunk ingestion leaves every verify, lock, log and counter as it was, so a
\* verify that holds its lock can always take its next step.
C19_ChunkAcceptedIndependently ==
    /\ [](\A c \in ChunkCells :
             chunkState[c[1]][c[2]] # "none" <=> chunkResp[c[1]][c[2]] = 200)
    /\ [][\A c \in ChunkCells :
             chunkResp[c[1]][c[2]] = 200 => chunkResp'[c[1]][c[2]] = 200]_vars
    /\ [][chunkState' # chunkState
             => UNCHANGED <<verifyVars, sessLock, logs, stats, userToken,
                            archive>>]_vars
    /\ [](\A p \in Verifiers :
             /\ vpc[p] = "locked"
                  => ENABLED (\E rec \in RaceRecs, prob \in Probs :
                                VerifyScore(p, rec, TRUE, prob))
             /\ vpc[p] = "commit" => ENABLED VerifyCommit(p))
C19_Witness ==
    \E t \in ChunkTokens :
        /\ \E i \in ChunkIndices :
              chunkState[t][i] = "failed" /\ chunkResp[t][i] = 200
        /\ \E i \in ChunkIndices :
              chunkState[t][i] = "pending" /\ chunkResp[t][i] = 200
        /\ \E i \in ChunkIndices : chunkState[t][i] = "stored"
        /\ vpc[1] = "commit" /\ vreq[1].token = t

\* C20: a poll of a submitted task answers 202 while the task is pending,
\* 200 once it has succeeded (the task then holds a verification result) and
\* 500 once it has failed; a task that was answered 200 or 500 is never
\* answered 202 afterwards.
C20_PollFollowsTaskState ==
    /\ [][\A p \in Verifiers :
             taskPoll'[p] # taskPoll[p]
                 => taskPoll'[p] = (CASE taskState[p] = "PENDING" -> 202
                                      [] taskState[p] = "SUCCESS" -> 200
                                      [] taskState[p] = "FAILURE" -> 500)]_vars
    /\ [](\A p \in Verifiers :
             /\ taskPoll[p] = 200
                  => taskState[p] = "SUCCESS" /\ vresp[p] \in Results
             /\ taskPoll[p] = 500
                  => taskState[p] = "FAILURE" /\ vresp[p] \notin Results
             /\ taskPoll[p] = 202 => ~taskFinal[p]
             /\ taskState[p] = "PENDING" => taskPoll[p] \in {0, 202})
C20_Witness ==
    \E p, q \in Verifiers :
        /\ taskPoll[p] = 200 /\ taskFinal[p]
        /\ taskPoll[q] = 500 /\ taskFinal[q]
        /\ vresp[q] = "AlreadyVerified"

C22_LogWrittenUnderLockAfterRecheck ==
    [][\A sid \in SessionIds :
          logs'[sid] # logs[sid]
              => /\ Len(logs[sid]) = 0
                 /\ Len(logs'[sid]) = 1
                 /\ logs'[sid][1].by = "verify" => sessLock[sid] \in Verifiers
                 /\ logs'[sid][1].by = "sweep" => sessLock[sid] = CeleryHolder]_vars

\* C23: a verify of an unlogged session whose latency exceeds the timeout
\* stages the TIMEOUT log, whatever scratch metrics the request carries,
\* without reconstruction or inference, and ends in no error.
C23_TimeoutBeforeRules ==
    [][\A p \in Verifiers :
          (/\ Scored(p)
           /\ Len(logs[vreq[p].token]) = 0
           /\ IsTimedOut(LatencyOf(p)))
              => /\ vpc'[p] = "commit"
                 /\ staged'[p].result = "timeout"
                 /\ vctx'[p].rec = NoData
                 /\ ~vctx'[p].inferred]_vars

\* C24: for a verify within the response window and above the timing floor
\* whose behaviour stats were computed, a fired no-interaction or zero-motion
\* rule decides before the device override: a touch-device session with
\* canvas OOB rate 100%, or with mean speed 0 over more than one sample,
\* resolves FAIL with verdict bot.
C24_RuleOrderFirstMatchWins ==
    \A p \in Verifiers :
        (/\ vpc[p] = "commit"
         /\ ~IsTimedOut(vctx[p].latency)
         /\ ~check_time_constraint(vctx[p].latency)
         /\ vctx[p].inferred
         /\ check_device_type(vctx[p].rec)
         /\ \/ check_no_scratching(vctx[p].rec)
            \/ check_no_mouse_movement(vctx[p].rec))
            => /\ staged[p].result = "fail"
               /\ vctx[p].verdict = "bot"

\* A verify that reached its commit within the response window on which none
\* of the rules ordered before the device override would fire.
NoEarlierRuleFires(p) ==
    /\ vpc[p] = "commit"
    /\ ~IsTimedOut(vctx[p].latency)
    /\ ~check_time_constraint(vctx[p].latency)
    /\ ~check_no_scratching(vctx[p].rec)
    /\ ~check_no_mouse_movement(vctx[p].rec)

\* C25: when no earlier rule fired, touch-device metadata replaces the
\* classifier's output by verdict human with confidence 0.5, so the result
\* follows the answer alone; without touch metadata the verdict and the
\* confidence are the classifier's, or absent when it gave none.
C25_DeviceOverride ==
    \A p \in Verifiers :
        NoEarlierRuleFires(p) =>
            IF vctx[p].rec.meta = "touch"
            THEN /\ vctx[p].verdict = "human"
                 /\ staged[p].conf = TouchConfidence
                 /\ staged[p].result = IF AnswerCorrect(p) THEN "success"
                                       ELSE "fail"
            ELSE /\ vctx[p].verdict = vctx[p].clsVerdict
                 /\ staged[p].conf = vctx[p].prob
                 /\ ~vctx[p].inferred
                      => vctx[p].verdict = "none" /\ staged[p].conf = NoVal
C25_Witness ==
    \E p \in Verifiers :
        /\ NoEarlierRuleFires(p)
        /\ vctx[p].rec.meta = "touch"
        /\ vctx[p].clsVerdict = "bot"
        /\ AnswerCorrect(p)
        /\ staged[p].result = "success"

\* C26: a verify within the response window whose behaviour stats report
\* mean speed 0 over more than one sample, on a mouse session on which no
\* earlier rule fired, resolves FAIL, also when the answer is correct and
\* the classifier says human.
C26_ZeroMotionFails ==
    \A p \in Verifiers :
        (/\ vpc[p] = "commit"
         /\ ~IsTimedOut(vctx[p].latency)
         /\ ~check_time_constraint(vctx[p].latency)
         /\ ~check_no_scratching(vctx[p].rec)
         /\ vctx[p].inferred
         /\ vctx[p].rec.meta = "mouse"
         /\ check_no_mouse_movement(vctx[p].rec))
            => staged[p].result = "fail"

\* C27: a sweep appends a TIMEOUT log only to a session that has no log and
\* whose age a verify at the same instant would find timed out; it never
\* appends a second log.
C27_SweepOnlyExpiredUnlogged ==
    [][\A sid \in SessionIds :
          (/\ Len(logs'[sid]) > Len(logs[sid])
           /\ logs'[sid][Len(logs'[sid])].by = "sweep")
              => /\ Len(logs[sid]) = 0
                 /\ logs'[sid][1].result = "timeout"
                 /\ IsTimedOut(now - sessions[sid].createdAt)]_vars

\* The total that a stored chunk's key carries: the digits after the
\* separator.
TotalOfKey(k) ==
    LET cut == CHOOSE n \in 1..Len(k) :
                   /\ k[n] = Underscore
                   /\ \A m \in 1..(n - 1) : k[m] # Underscore
    IN  ParseDigits(SubSeq(k, cut + 1, Len(k)))

\* The chunk indices found in the store for a session.
IndicesInStore(t) ==
    {IndexOfKey(arrival[t][n].key) : n \in DOMAIN arrival[t]}

\* C28: when one of the chunks 0..totalChunks-1 of a session is not in the
\* store (none stored, or only some of them), the reconstruction of the
\* session is the empty list.
C28_MissingChunksGiveEmpty ==
    \A t \in ChunkTokens :
        (/\ \A i \in IndicesInStore(t) : i < TotalChunks
         /\ \E i \in 0..(TotalChunks - 1) : i \notin IndicesInStore(t))
            => all_events(arrival[t]) = <<>>

\* C29: no object of the store has a chunk index that reaches the total of
\* its key, and no reconstruction holds an event of such a chunk.
C29_IndexBelowTotal ==
    \A t \in ChunkTokens :
        /\ \A n \in DOMAIN arrival[t] :
              IndexOfKey(arrival[t][n].key) < TotalOfKey(arrival[t][n].key)
        /\ \A n \in DOMAIN all_events(arrival[t]) :
              all_events(arrival[t])[n].chunk < TotalChunks
        /\ merged[t].read =>
              \A n \in DOMAIN merged[t].events :
                  merged[t].events[n].chunk < TotalChunks

\* The test session is wholly in the store: every chunk of its loop was
\* sent and written.
AllChunksIngested ==
    /\ splitN # NoVal
    /\ splitSent = total_chunks(splitN)
    /\ splitPending = {}

\* C30: once the chunks 0..totalChunks-1 of an n-event list, with
\* totalChunks = ceil(n / CHUNK_SIZE), are all ingested, the reconstruction
\* is the original list in its order, and the store holds totalChunks
\* objects; also when there are ten chunks or more.
C30_ChunkingRoundTrips ==
    AllChunksIngested =>
        /\ Len(splitBucket) = total_chunks(splitN)
        /\ splitN <= CHUNK_SIZE * total_chunks(splitN)
        /\ splitN > CHUNK_SIZE * (total_chunks(splitN) - 1)
        /\ all_events(splitBucket) = test_events(splitN)
\* Eleven chunks, the last one partial, written out of index order.
C30_Witness ==
    /\ AllChunksIngested
    /\ total_chunks(splitN) >= 10
    /\ splitN % CHUNK_SIZE # 0
    /\ \E n \in 1..(Len(splitBucket) - 1) :
          KeyBefore(splitBucket[n + 1].key, splitBucket[n].key)
    /\ all_events(splitBucket) = test_events(splitN)

\* The input of the last extraction, and whether it got as far as the events.
LastMeta == AllMetas[exIn[1]]
LastEvents == AllEventLists[exIn[2]]
Extracted == exIn # NoIn /\ _roi_rects(LastMeta).rect_track # NoRect

\* The events of a list on which flattening does not raise.
WellFormedEvents(events) ==
    SelectSeq(events, LAMBDA ev : ~EventRaises(ev))

\* C31: an extraction never ends in an exception, whatever unknown or
\* malformed events its list holds, and its flattened points are those of
\* the well-formed events of the list.
C31_MalformedEventsSkipped ==
    Extracted =>
        /\ ~exOut.raised
        /\ exOut.pts = _flatten_events(WellFormedEvents(LastEvents))

\* The last extraction returned (it did not end in an exception).
Returned == exIn # NoIn /\ ~exOut.raised
\* The canvas rectangle of the last input is absent or has no area.
CanvasInvalid ==
    \/ LastMeta.canvas = NoRect
    \/ LastMeta.canvas[3] <= 0
    \/ LastMeta.canvas[4] <= 0

\* C32: an extraction that returns gives no tensor exactly when the canvas
\* rectangle is absent or invalid or no point was flattened; with one
\* flattened point it gives a tensor, reports one sample, and the velocity,
\* speed and acceleration channels of that sample are zero.
C32_ExtractionFailsOnlyWithoutCanvasOrPoints ==
    Returned =>
        /\ exOut.window.X = NoWindow
              <=> (CanvasInvalid \/ _flatten_events(LastEvents) = <<>>)
        /\ (~CanvasInvalid /\ Len(_flatten_events(LastEvents)) = 1)
              => /\ exOut.window.X # NoWindow
                 /\ exOut.window.raw_len = 1
                 /\ \A ch \in 3..6 : exOut.window.X[1][ch] = 0
\* One point on a canvas away from the origin; the unknown, incomplete and
\* empty events before it were skipped.
C32_Witness ==
    /\ Returned
    /\ ~CanvasInvalid
    /\ LastMeta.canvas[1] > 0
    /\ Len(LastEvents) > 1
    /\ Len(exOut.pts) = 1
    /\ exOut.window.X # NoWindow
    /\ exOut.window.X[1][1] > 0

\* The last extraction returned a tensor.
GotWindow == Returned /\ exOut.window.X # NoWindow
\* The position and out-of-bounds channels of flattened sample k of the
\* last input.
SampleOf(k) ==
    LET pt == _flatten_events(LastEvents)[k]
    IN  _norm_xy(pt[2], pt[3], _roi_rects(LastMeta).rect_track)
RowIsSample(row, k) ==
    /\ row[1] = SampleOf(k).x
    /\ row[2] = SampleOf(k).y
    /\ row[7] = SampleOf(k).oob

\* C33: a tensor has T rows of 7 channels and reports the number n of
\* flattened samples; with n < T row i is sample i and the rows after n are
\* zero; with n > T row i is sample n - T + i, the last T samples in
\* chronological order.
C33_PadOrTruncateToWindow ==
    GotWindow =>
        LET n == Len(_flatten_events(LastEvents))
            X == exOut.window.X
        IN  /\ Len(X) = WindowRows
            /\ \A i \in 1..WindowRows : Len(X[i]) = 7
            /\ exOut.window.raw_len = n
            /\ n <= WindowRows
                  => /\ \A i \in 1..n : RowIsSample(X[i], i)
                     /\ \A i \in (n + 1)..WindowRows : X[i] = ZeroRow
            /\ n > WindowRows
                  => \A i \in 1..WindowRows :
                        RowIsSample(X[i], n - WindowRows + i)
\* Six samples in a window of fewer rows: the first row is a later sample
\* than the first flattened one.
C33_Witness ==
    /\ GotWindow
    /\ exOut.window.raw_len > WindowRows + 1
    /\ RowIsSample(exOut.window.X[1], exOut.window.raw_len - WindowRows + 1)
    /\ ~RowIsSample(exOut.window.X[1], 1)

\* The flattened sample that row i of the last tensor was made from, and
\* the rows that are samples.
SampleRows ==
    1..Min(Len(_flatten_events(LastEvents)), WindowRows)
PointOfRow(i) ==
    LET pts == _flatten_events(LastEvents)
    IN  IF Len(pts) > WindowRows THEN pts[Len(pts) - WindowRows + i]
        ELSE pts[i]
\* The point lies outside the rectangle (left, top, w, h).
OutsideRect(pt, rect) ==
    \/ pt[2] < rect[1] \/ pt[2] > rect[1] + rect[3]
    \/ pt[3] < rect[2] \/ pt[3] > rect[2] + rect[4]
\* The rectangle with each side of less than a pixel taken as one pixel.
AtLeastOnePixel(rect) ==
    <<rect[1], rect[2], Max(PxUnit, rect[3]), Max(PxUnit, rect[4])>>

\* C34 as stated: every sample row has its coordinates inside [0,1], and
\* its out-of-bounds flag is 1 exactly when the raw point lies outside the
\* canvas rectangle.
C34_FlagIffOutsideCanvas ==
    GotWindow =>
        \A i \in SampleRows :
            LET row == exOut.window.X[i]
            IN  /\ row[1] \in 0..PosScale
                /\ row[2] \in 0..PosScale
                /\ row[7] = 1 <=> OutsideRect(PointOfRow(i), LastMeta.canvas)

\* C34 amended: every sample row has its coordinates inside [0,1], and its
\* out-of-bounds flag is 1 exactly when the raw point lies outside the
\* canvas rectangle with sides of less than one pixel taken as one pixel;
\* a point left of or above it has coordinate 0, right of or below it
\* coordinate 1, with the flag set.
C34_FlagIffOutsideCanvasOfAPixel ==
    GotWindow =>
        \A i \in SampleRows :
            LET row == exOut.window.X[i]
                pt == PointOfRow(i)
                rect == AtLeastOnePixel(LastMeta.canvas)
            IN  /\ row[1] \in 0..PosScale
                /\ row[2] \in 0..PosScale
                /\ row[7] = 1 <=> OutsideRect(pt, rect)
                /\ pt[2] < rect[1] => row[1] = 0 /\ row[7] = 1
                /\ pt[2] > rect[1] + rect[3] => row[1] = PosScale /\ row[7] = 1
                /\ pt[3] < rect[2] => row[2] = 0 /\ row[7] = 1
                /\ pt[3] > rect[2] + rect[4] => row[2] = PosScale /\ row[7] = 1
\* A tensor with a flagged row whose coordinate was clamped to 1 and a row
\* that is not flagged.
C34_Witness ==
    /\ GotWindow
    /\ \E i \in SampleRows :
          exOut.window.X[i][7] = 1 /\ exOut.window.X[i][1] = PosScale
    /\ \E i \in SampleRows : exOut.window.X[i][7] = 0

\* The last extraction flattened its events and returned.
Flattened == Extracted /\ ~exOut.raised
IsMoves(ev) == ev.type \in {"moves", "moves_free"}
IsPointer(ev) == ev.type \in {"pointerdown", "pointerup", "click"}
\* The number of points of a moves event, and of any event.
MoveCount(ev) == Min(Len(ev.dts), Min(Len(ev.xrs), Len(ev.yrs)))
PointCount(ev) ==
    IF IsMoves(ev) THEN MoveCount(ev)
    ELSE IF IsPointer(ev) /\ ev.t # NoVal /\ ev.x # NoVal /\ ev.y # NoVal
    THEN 1 ELSE 0
RECURSIVE TotalPoints(_)
TotalPoints(events) ==
    IF events = <<>> THEN 0
    ELSE PointCount(Head(events)) + TotalPoints(Tail(events))
\* The base timestamp of a moves event, 0 when it has none.
BaseOf(ev) == IF ev.base_t = NoVal THEN 0 ELSE ev.base_t
\* The sum of the first i deltas as they were sent.
RECURSIVE SentDeltaSum(_, _)
SentDeltaSum(dts, i) ==
    IF i = 0 THEN 0 ELSE SentDeltaSum(dts, i - 1) + dts[i]
\* The sum of the first i deltas, each cut to a whole number and taken as
\* 1 when that is not positive.
RECURSIVE WholeStepSum(_, _)
WholeStepSum(dts, i) ==
    IF i = 0 THEN 0
    ELSE WholeStepSum(dts, i - 1)
         + (IF dts[i] >= TimeFrac THEN dts[i] \div TimeFrac ELSE 1)
\* The flattened list has a point at the time (in thousandths) and place.
HasPointAt(t, x, y) ==
    \E k \in DOMAIN exOut.pts :
        exOut.pts[k][1] * TimeFrac = t /\ exOut.pts[k][2] = x /\ exOut.pts[k][3] = y
SortedByTime ==
    \A k \in 1..(Len(exOut.pts) - 1) : exOut.pts[k][1] <= exOut.pts[k + 1][1]

RECURSIVE SentTimes(_)
SentTimes(events) ==
    IF events = <<>> THEN <<>>
    ELSE InsertSorted(SentTimes(SubSeq(events, 1, Len(events) - 1)),
                      events[Len(events)].t)
\* Every event of the last input is a pointer event with a timestamp and a
\* position.
OnlyPointerEvents ==
    \A e \in DOMAIN LastEvents :
        IsPointer(LastEvents[e]) /\ PointCount(LastEvents[e]) = 1
\* The microseconds that timestamp v of the sent stream stands for, by the
\* median positive step of the stream: seconds at 0.01 or less,
\* microseconds at 1000 or more, else milliseconds.
SentTimeInUs(v, sent) ==
    LET diffs == SortedPositiveDiffs(sent)
    IN  IF Len(sent) < 2 \/ diffs = <<>> THEN (v * UsPerMs) \div TimeFrac
        ELSE IF TwiceMedian(diffs) * 100 <= 2 * TimeFrac THEN v * UsPerMs
        ELSE IF TwiceMedian(diffs) >= 2 * 1000 * TimeFrac THEN v \div TimeFrac
        ELSE (v * UsPerMs) \div TimeFrac

\* C36: the timestamps that build_window_7ch works with are those of the
\* stream it was given, corrected by that stream's median positive step
\* (seconds times 1000, microseconds divided by 1000, else unchanged), to
\* within the millisecond that cutting a timestamp to a whole number costs.
C36_UnitsCorrectedThroughWindow ==
    (Flattened /\ OnlyPointerEvents) =>
        LET sent == SentTimes(LastEvents)
        IN  /\ Len(exOut.ts) = Len(sent)
            /\ \A k \in DOMAIN sent :
                  LET want == SentTimeInUs(sent[k], sent)
                  IN  /\ exOut.ts[k] - want < UsPerMs
                      /\ want - exOut.ts[k] < UsPerMs

\* The model half of C37: the handle, once it holds a model, keeps it; a
\* call returns the model in the handle or none; a failed load leaves the
\* handle empty, and a call that finds the handle empty goes on to take
\* the lock and load.
ModelSetOnce ==
    /\ _MODEL # NoModel => _MODEL' = _MODEL
    /\ \A p \in Verifiers :
          /\ mret'[p] \in {NoModel, _MODEL'}
          /\ (mpc[p] = "load" /\ mpc'[p] = "ret" /\ _MODEL' = NoModel)
                => _MODEL_LOCK = p
          /\ (mpc[p] = "idle" /\ mpc'[p] # "idle" /\ _MODEL = NoModel)
                => mpc'[p] = "lock"
\* The threshold half of C37: the threshold, once it has a value, keeps it.
ThresholdSetOnce == _THRESHOLD # NoVal => _THRESHOLD' = _THRESHOLD

\* C37: under any interleaving of the calls the model handle is set at
\* most once, every caller receives that one model or none, a failed load
\* leaves the handle empty for the next call to retry, and the threshold,
\* once read from the file or defaulted to 0.5, never changes.
C37_SingletonsSetOnce == [][ModelSetOnce /\ ThresholdSetOnce]_vars
\* The model half alone.
ModelHalfHolds == [][ModelSetOnce]_vars

\* C38: every log with result SUCCESS records a correct answer, an ML
\* verdict that is not bot and a latency within the timeout, and a verify
\* that writes a SUCCESS log submitted the session's answer.
C38_SuccessLogsAreCorrect ==
    /\ [](\A sid \in SessionIds :
            \A k \in 1..Len(logs[sid]) :
                logs[sid][k].result = "success"
                    => /\ logs[sid][k].isCorrect
                       /\ logs[sid][k].isBot # "true"
                       /\ logs[sid][k].latency <= TimeoutMs)
    /\ [][\A p \in Verifiers :
             (/\ vpc[p] = "commit"
              /\ vpc'[p] = "idle"
              /\ Len(logs'[vreq[p].token]) > Len(logs[vreq[p].token])
              /\ staged[p].result = "success")
                 => AnswerCorrect(p)]_vars
\* A SUCCESS log written for a verify that came in after the timing floor,
\* in a run in which the clock has passed the timeout.
C38_Witness ==
    /\ now > TimeoutMs
    /\ \E sid \in SessionIds :
          /\ Len(logs[sid]) = 1
          /\ logs[sid][1].result = "success"
          /\ logs[sid][1].latency > TimingFloorMs

\* The test session's chunk i is in the store.
ChunkStored(i) ==
    \E n \in DOMAIN splitBucket :
        splitBucket[n].key = ChunkKey(i, total_chunks(splitN))
\* The chunk whose store write this step makes.
Written(i) == i \in splitPending /\ i \notin splitPending'

\* C39: writing a chunk that is in the store already leaves the stored
\* objects and the reconstruction as they were; the store never holds two
\* objects for one chunk, and once every chunk is ingested, however often,
\* the reconstruction is the session's event list with no event twice.
C39_IngestionIdempotent ==
    /\ [][\A i \in 0..(MaxSplit - 1) :
             (Written(i) /\ ChunkStored(i))
                 => /\ splitBucket' = splitBucket
                    /\ all_events(splitBucket') = all_events(splitBucket)]_vars
    /\ [](\A m, n \in DOMAIN splitBucket :
             splitBucket[m].key = splitBucket[n].key => m = n)
    /\ [](AllChunksIngested
             => /\ Len(splitBucket) = total_chunks(splitN)
                /\ all_events(splitBucket) = test_events(splitN))
\* A session of more than one chunk, all ingested, two of the deliveries
\* repeated.
C39_Witness ==
    /\ AllChunksIngested
    /\ total_chunks(splitN) >= 2
    /\ splitResent = 2
    /\ all_events(splitBucket) = test_events(splitN)

\* The condition of the timing floor, the no-interaction or the zero-motion
\* rule holds on verify p, which is within the response window.
LoggingRuleFires(p) ==
    /\ ~IsTimedOut(vctx[p].latency)
    /\ \/ check_time_constraint(vctx[p].latency)
       \/ vctx[p].inferred /\ check_no_scratching(vctx[p].rec)
       \/ /\ vctx[p].inferred
          /\ vctx[p].rec.meta = "mouse"
          /\ check_no_mouse_movement(vctx[p].rec)

TimeoutAndFusionLogs ==
    /\ \A sid \in SessionIds :
          \A k \in 1..Len(logs[sid]) :
              logs[sid][k].result = "timeout" => ~logs[sid][k].isCorrect
    /\ \A p \in Verifiers :
          vpc[p] = "commit"
              => /\ staged[p].result = "timeout" => ~staged[p].isCorrect
                 /\ ~IsTimedOut(vctx[p].latency)
                       => staged[p].isCorrect = AnswerCorrect(p)
====
